---- MODULE Spec2Model ----
(***************************************************************************)
(* Rate-limited (RL) wallet of chia-blockchain: src/wallet/rl_wallet/      *)
(* rl_wallet.py and the send_transaction handler of                        *)
(* src/wallet/websocket_server.py, on one wallet state manager.            *)
(*                                                                         *)
(* Byte strings (public keys, coin ids, puzzle hashes) are tagged tuples,  *)
(* so that a hash is a function of its preimage and of nothing else.       *)
(***************************************************************************)
EXTENDS Integers, Sequences, FiniteSets, TLC

(***************************************************************************)
(* Bounds of the model.                                                    *)
(***************************************************************************)
MaxCalls == 2
MaxHeight == 2
MaxRecords == 4
MaxTx == 2

CallIds == 1..MaxCalls

(***************************************************************************)
(* Absent values (Python None), one per type.                              *)
(***************************************************************************)
NoneBytes == <<"none">>
NoneInt == -1
NoneCoin == [parent_coin_info |-> NoneBytes, puzzle_hash |-> NoneBytes, amount |-> NoneInt]

(***************************************************************************)
(* Input domains.                                                          *)
(***************************************************************************)
Intervals == {2}
Limits == {3}
FundAmounts == {2}
SendAmounts == {1, 2, 3}
ForeignKey == <<"g1", 0>>

\* master_sk_to_wallet_sk(private_key, index).get_g1(): the public key of a
\* derivation index, distinct for distinct indices.
master_sk_to_wallet_pk(index) == <<"g1", index>>

\* Hexadecimal text of a byte string, and hexstr_to_bytes.
hexstr(b) == <<"hex", b>>
hexstr_to_bytes(s) == s[2]

\* Coin.name(): the coin id is the hash of the coin's three fields.
CoinName(c) == <<"coin", c.parent_coin_info, c.puzzle_hash, c.amount>>

\* rl_puzzle_for_pk(...).get_tree_hash(): content-addressed in the five
\* policy parameters.
rl_puzzle_for_pk(pubkey, rate_amount, interval_time, origin_id, clawback_pk) ==
    <<"rl", pubkey, rate_amount, interval_time, origin_id, clawback_pk>>

\* Puzzle hashes of the standard (main) wallet and of outside recipients.
StdPuzzleHash(n) == <<"std", n>>
Genesis(n) == <<"gen", n>>
Recipients == {StdPuzzleHash(9)}

\* The coins the main wallet holds at the start.
MainCoins ==
    { [parent_coin_info |-> Genesis(1), puzzle_hash |-> StdPuzzleHash(1), amount |-> 4] }

\* The counterparty keys and origin coins a caller may name.
UserKeys == {master_sk_to_wallet_pk(2), ForeignKey}
AdminKeys == {master_sk_to_wallet_pk(1), ForeignKey}
OriginInputs ==
    { [parent_coin_info |-> Genesis(1), puzzle_hash |-> StdPuzzleHash(1), amount |-> 4],
      [parent_coin_info |-> Genesis(3), puzzle_hash |-> StdPuzzleHash(2), amount |-> 4] }

(***************************************************************************)
(* RLInfo (rl_wallet.py:40-51) and its JSON form.                          *)
(***************************************************************************)
RLInfo(type, admin_pubkey, user_pubkey, limit, interval, rl_origin, rl_origin_id, rl_puzzle_hash, initialized) ==
    [type |-> type, admin_pubkey |-> admin_pubkey, user_pubkey |-> user_pubkey,
     limit |-> limit, interval |-> interval, rl_origin |-> rl_origin,
     rl_origin_id |-> rl_origin_id, rl_puzzle_hash |-> rl_puzzle_hash,
     initialized |-> initialized]

JsonBytes(b) == IF b = NoneBytes THEN <<"null">> ELSE hexstr(b)
JsonCoin(c) ==
    IF c = NoneCoin THEN <<"null">>
    ELSE <<"obj", hexstr(c.parent_coin_info), hexstr(c.puzzle_hash), c.amount>>
FromJsonBytes(j) == IF j = <<"null">> THEN NoneBytes ELSE hexstr_to_bytes(j)
FromJsonCoin(j) ==
    IF j = <<"null">> THEN NoneCoin
    ELSE [parent_coin_info |-> hexstr_to_bytes(j[2]),
          puzzle_hash |-> hexstr_to_bytes(j[3]), amount |-> j[4]]

\* json.dumps(rl_info.to_json_dict())
to_json_dict(info) ==
    <<info.type, JsonBytes(info.admin_pubkey), JsonBytes(info.user_pubkey),
      info.limit, info.interval, JsonCoin(info.rl_origin),
      JsonBytes(info.rl_origin_id), JsonBytes(info.rl_puzzle_hash),
      info.initialized>>

\* RLInfo.from_json_dict(json.loads(data))
from_json_dict(d) ==
    RLInfo(d[1], FromJsonBytes(d[2]), FromJsonBytes(d[3]), d[4], d[5],
           FromJsonCoin(d[6]), FromJsonBytes(d[7]), FromJsonBytes(d[8]), d[9])

WalletInfo(id, name, data) == [id |-> id, name |-> name, data |-> data]
NoneWalletInfo == WalletInfo(0, "", to_json_dict(RLInfo("", NoneBytes, NoneBytes, NoneInt, NoneInt, NoneCoin, NoneBytes, NoneBytes, FALSE)))

WalletCoinRecord(coin, confirmed_block_index, spent) ==
    [coin |-> coin, confirmed_block_index |-> confirmed_block_index, spent |-> spent]

NoneRecord == WalletCoinRecord(NoneCoin, NoneInt, FALSE)

\* RLWallet.create: the wallet object built from a wallet record; its
\* rl_coin_record is not set until a balance or a transfer is asked for.
\* a wallet object that starts from an empty policy whatever the record holds
RLWalletCreate_blank(info) ==
    [wallet_info |-> info,
     rl_info |-> [from_json_dict(info.data) EXCEPT !.rl_origin = NoneCoin],
     rl_coin_record |-> NoneRecord]

RLWalletCreate(info) ==
    [wallet_info |-> info, rl_info |-> from_json_dict(info.data),
     rl_coin_record |-> NoneRecord]

(***************************************************************************)
(* State.                                                                  *)
(***************************************************************************)
VARIABLES
    height,          \* height of the lca block
    puzzle_store,    \* derivation records
    used_up_to,      \* highest derivation index marked used
    store_lock,      \* the call holding puzzle_store.lock, 0 when free
    user_store,      \* wallet records, in order of creation
    wallets,         \* wallet_state_manager.wallets: id -> wallet object
    wallet_store,    \* coin records
    tx_store,        \* transaction records
    calls,           \* create_rl_admin / create_rl_user calls in flight
    ret              \* the operation that ran last and what it returned; none after a block

vars == <<height, puzzle_store, used_up_to, store_lock, user_store, wallets,
          wallet_store, tx_store, calls, ret>>

DerivationRecord(index, puzzle_hash, pubkey, wallet_id) ==
    [index |-> index, puzzle_hash |-> puzzle_hash, pubkey |-> pubkey,
     wallet_id |-> wallet_id]


IdleCall == [op |-> "none", pc |-> "idle", unused |-> 0, pubkey |-> NoneBytes,
             wallet_info |-> NoneWalletInfo]



TransactionRecord(kind, wallet_id, removals, additions, to_puzzle_hash, amount, puzzle, solution_amount, signer) ==
    [kind |-> kind, wallet_id |-> wallet_id, removals |-> removals,
     additions |-> additions, to_puzzle_hash |-> to_puzzle_hash, amount |-> amount,
     puzzle |-> puzzle, solution_amount |-> solution_amount, signer |-> signer,
     confirmed |-> FALSE, coin_solutions |-> <<>>, aggsig |-> <<>>]

NoTx == TransactionRecord("none", 0, {}, {}, NoneBytes, NoneInt, NoneBytes, NoneInt,
                          NoneBytes)

\* the data of a response: its status and reason (websocket_server.py:171-225)
ResponseData(status, reason) == [status |-> status, reason |-> reason]

NoData == ResponseData("", "")

\* What an operation returned: result is "True", "False", "None", "exception",
\* "tx" (a transaction record, in tx) or "value" (a balance, in available);
\* args holds the arguments of a set_user_info call, error what a failed
\* transfer or clawback raised, data what send_transaction, rl_set_admin_info
\* or safe_handle responded; result is "polling", and elapsed the seconds
\* since the push, while send_transaction waits for a status.
Ret(op, wallet, result, amount, available, tx) ==
    [op |-> op, wallet |-> wallet, result |-> result, amount |-> amount,
     available |-> available, tx |-> tx, args |-> <<>>, error |-> "",
     data |-> NoData, elapsed |-> 0]

\* the exceptions a transfer or a clawback can end with
AttributeError == "AttributeError"
RlCoinIsNone == "rl_coin is None"
RlInfoElementIsNone == "One ore more of the elements of rl_info is None"
IndexForPubkeyIsNone == "index_for_pubkey is None"
IndexForPuzzlehashIsNone == "index_for_puzzlehash is None"
PuzzleError == "rl_puzzle_for_pk"

\* an operation that raised error
Raised(op, wallet, amount, available, error) ==
    [Ret(op, wallet, "exception", amount, available, NoTx) EXCEPT !.error = error]

NoRet == Ret("none", 0, "none", NoneInt, NoneInt, NoTx)

\* what a handler called with too few arguments, and a send on a closed
\* websocket, raise
TypeError == "TypeError"
ConnectionClosedError == "ConnectionClosedError"

format_response(command, response_data) == [command |-> command, data |-> response_data]

\* what safe_handle sends when handling the message of command ("None" when
\* it could not be read) raised an exception other than ConnectionClosedError:
\* the outcome r of the handler with the response in data
safe_handle_error_anonymous(command, r) ==
    [r EXCEPT !.data = format_response("UnknownCommand",
                           [success |-> FALSE, error |-> r.error])]

safe_handle_error(command, r) ==
    [r EXCEPT !.data = format_response(
                           IF command = "None" THEN "UnknownCommand" ELSE command,
                           [success |-> FALSE, error |-> r.error])]

\* rl_set_admin_info answers with what admin_create_coin returned (r); when
\* it raised, safe_handle answers
rl_set_admin_info(r) ==
    IF r.result = "exception"
    THEN safe_handle_error("rl_set_admin_info", r)
    ELSE [r EXCEPT !.data = format_response("rl_set_admin_info",
                                [success |-> r.result = "True"])]

MainWalletInfo == WalletInfo(1, "Wallet", <<"main">>)

\* Before any RL wallet exists.
InitCreate ==
    /\ height = 0
    /\ puzzle_store = {}
    /\ used_up_to = 0
    /\ store_lock = 0
    /\ user_store = <<MainWalletInfo>>
    /\ wallets = <<>>
    /\ wallet_store = {WalletCoinRecord(c, 0, FALSE) : c \in MainCoins}
    /\ tx_store = {}
    /\ calls = [c \in CallIds |-> IdleCall]
    /\ ret = NoRet

\* After create_rl_admin (call 1) and then create_rl_user (call 2) have run,
\* one after the other: wallet 2 is the admin, wallet 3 the user.
AdminInfo0 == WalletInfo(2, "RL Admin",
    to_json_dict(RLInfo("admin", master_sk_to_wallet_pk(1), NoneBytes, NoneInt, NoneInt,
                        NoneCoin, NoneBytes, NoneBytes, FALSE)))
UserInfo0 == WalletInfo(3, "RL User",
    to_json_dict(RLInfo("user", NoneBytes, master_sk_to_wallet_pk(2), NoneInt, NoneInt,
                        NoneCoin, NoneBytes, NoneBytes, FALSE)))

Init ==
    /\ height = 0
    /\ puzzle_store =
           {DerivationRecord(1, <<"token", 1>>, master_sk_to_wallet_pk(1), 2),
            DerivationRecord(2, <<"token", 2>>, master_sk_to_wallet_pk(2), 3)}
    /\ used_up_to = 2
    /\ store_lock = 0
    /\ user_store = <<MainWalletInfo, AdminInfo0, UserInfo0>>
    /\ wallets = [i \in {2, 3} |-> IF i = 2 THEN RLWalletCreate(AdminInfo0)
                                             ELSE RLWalletCreate(UserInfo0)]
    /\ wallet_store = {WalletCoinRecord(c, 0, FALSE) : c \in MainCoins}
    /\ tx_store = {}
    /\ calls = [c \in CallIds |->
                  IF c = 1 THEN [op |-> "admin", pc |-> "done", unused |-> 1,
                                 pubkey |-> master_sk_to_wallet_pk(1),
                                 wallet_info |-> AdminInfo0]
                  ELSE IF c = 2 THEN [op |-> "user", pc |-> "done", unused |-> 2,
                                      pubkey |-> master_sk_to_wallet_pk(2),
                                      wallet_info |-> UserInfo0]
                  ELSE IdleCall]
    /\ ret = NoRet

(***************************************************************************)
(* puzzle_store and user_store queries.                                    *)
(***************************************************************************)
\* puzzle_store.get_unused_derivation_path(), after create_more_puzzle_hashes
get_unused_derivation_path == used_up_to + 1

\* puzzle_store.set_used_up_to(index)
set_used_up_to(index) == IF index > used_up_to THEN index ELSE used_up_to

\* puzzle_store.index_for_pubkey(pubkey): None (NoneInt) when unregistered
index_for_pubkey(pubkey) ==
    IF \E r \in puzzle_store : r.pubkey = pubkey
    THEN (CHOOSE r \in puzzle_store : r.pubkey = pubkey).index
    ELSE NoneInt

\* puzzle_store.index_for_puzzle_hash_and_wallet(puzzle_hash, wallet_id)
index_for_puzzle_hash_and_wallet(puzzle_hash, wallet_id) ==
    IF \E r \in puzzle_store : r.puzzle_hash = puzzle_hash /\ r.wallet_id = wallet_id
    THEN (CHOOSE r \in puzzle_store :
              r.puzzle_hash = puzzle_hash /\ r.wallet_id = wallet_id).index
    ELSE NoneInt

\* puzzle_store.puzzle_hash_exists(puzzle_hash)
puzzle_hash_exists(puzzle_hash) == \E r \in puzzle_store : r.puzzle_hash = puzzle_hash

\* user_store.get_last_wallet()
get_last_wallet == user_store[Len(user_store)]

\* user_store.update_wallet(info)
update_wallet(info) == [user_store EXCEPT ![info.id] = info]

\* wallet_state_manager.add_new_wallet(wallet, id)
add_new_wallet(wallet, id) ==
    [i \in (DOMAIN wallets) \cup {id} |-> IF i = id THEN wallet ELSE wallets[i]]

(***************************************************************************)
(* create_rl_admin (rl_wallet.py:63-103), one action per suspension point. *)
(* It does not take puzzle_store.lock.                                     *)
(***************************************************************************)
create_rl_admin_unused(c) ==
    /\ calls[c].pc = "idle"
    /\ LET unused == get_unused_derivation_path
       IN calls' = [calls EXCEPT ![c] =
                [op |-> "admin", pc |-> "create_wallet", unused |-> unused,
                 pubkey |-> master_sk_to_wallet_pk(unused),
                 wallet_info |-> NoneWalletInfo]]
    /\ UNCHANGED <<height, puzzle_store, used_up_to, store_lock, user_store,
                   wallets, wallet_store, tx_store, ret>>

create_rl_admin_create_wallet(c) ==
    /\ calls[c].op = "admin" /\ calls[c].pc = "create_wallet"
    /\ LET rl_info == RLInfo("admin", calls[c].pubkey, NoneBytes, NoneInt, NoneInt,
                             NoneCoin, NoneBytes, NoneBytes, FALSE)
           info == WalletInfo(Len(user_store) + 1, "RL Admin", to_json_dict(rl_info))
       IN /\ user_store' = Append(user_store, info)
          /\ calls' = [calls EXCEPT ![c].wallet_info = info, ![c].pc = "add_paths"]
    /\ UNCHANGED <<height, puzzle_store, used_up_to, store_lock, wallets,
                   wallet_store, tx_store, ret>>

create_rl_admin_add_paths(c) ==
    /\ calls[c].op = "admin" /\ calls[c].pc = "add_paths"
    /\ puzzle_store' = puzzle_store \cup
           {DerivationRecord(calls[c].unused, <<"token", c>>, calls[c].pubkey,
                             calls[c].wallet_info.id)}
    /\ calls' = [calls EXCEPT ![c].pc = "set_used"]
    /\ UNCHANGED <<height, used_up_to, store_lock, user_store, wallets,
                   wallet_store, tx_store, ret>>

create_rl_admin_set_used(c) ==
    /\ calls[c].op = "admin" /\ calls[c].pc = "set_used"
    /\ used_up_to' = set_used_up_to(calls[c].unused)
    /\ calls' = [calls EXCEPT ![c].pc = "add_wallet"]
    /\ UNCHANGED <<height, puzzle_store, store_lock, user_store, wallets,
                   wallet_store, tx_store, ret>>

create_rl_admin_add_wallet(c) ==
    /\ calls[c].op = "admin" /\ calls[c].pc = "add_wallet"
    /\ wallets' = add_new_wallet(RLWalletCreate(calls[c].wallet_info),
                                 calls[c].wallet_info.id)
    /\ calls' = [calls EXCEPT ![c].pc = "done"]
    /\ UNCHANGED <<height, puzzle_store, used_up_to, store_lock, user_store,
                   wallet_store, tx_store, ret>>

(***************************************************************************)
(* create_rl_user (rl_wallet.py:105-151): the same steps under             *)
(* puzzle_store.lock, the wallet record read back with get_last_wallet.    *)
(***************************************************************************)
create_rl_user_unused(c) ==
    /\ calls[c].pc = "idle"
    /\ store_lock = 0
    /\ store_lock' = c
    /\ LET unused == get_unused_derivation_path
       IN calls' = [calls EXCEPT ![c] =
                [op |-> "user", pc |-> "create_wallet", unused |-> unused,
                 pubkey |-> master_sk_to_wallet_pk(unused),
                 wallet_info |-> NoneWalletInfo]]
    /\ UNCHANGED <<height, puzzle_store, used_up_to, user_store, wallets,
                   wallet_store, tx_store, ret>>

create_rl_user_create_wallet(c) ==
    /\ calls[c].op = "user" /\ calls[c].pc = "create_wallet"
    /\ LET rl_info == RLInfo("user", NoneBytes, calls[c].pubkey, NoneInt, NoneInt,
                             NoneCoin, NoneBytes, NoneBytes, FALSE)
           info == WalletInfo(Len(user_store) + 1, "RL User", to_json_dict(rl_info))
       IN user_store' = Append(user_store, info)
    /\ calls' = [calls EXCEPT ![c].pc = "get_last_wallet"]
    /\ UNCHANGED <<height, puzzle_store, used_up_to, store_lock, wallets,
                   wallet_store, tx_store, ret>>

create_rl_user_get_last_wallet(c) ==
    /\ calls[c].op = "user" /\ calls[c].pc = "get_last_wallet"
    /\ calls' = [calls EXCEPT ![c].wallet_info = get_last_wallet, ![c].pc = "add_paths"]
    /\ UNCHANGED <<height, puzzle_store, used_up_to, store_lock, user_store,
                   wallets, wallet_store, tx_store, ret>>

create_rl_user_add_paths(c) ==
    /\ calls[c].op = "user" /\ calls[c].pc = "add_paths"
    /\ puzzle_store' = puzzle_store \cup
           {DerivationRecord(calls[c].unused, <<"token", c>>, calls[c].pubkey,
                             calls[c].wallet_info.id)}
    /\ calls' = [calls EXCEPT ![c].pc = "set_used"]
    /\ UNCHANGED <<height, used_up_to, store_lock, user_store, wallets,
                   wallet_store, tx_store, ret>>

create_rl_user_set_used(c) ==
    /\ calls[c].op = "user" /\ calls[c].pc = "set_used"
    /\ used_up_to' = set_used_up_to(calls[c].unused)
    /\ calls' = [calls EXCEPT ![c].pc = "add_wallet"]
    /\ UNCHANGED <<height, puzzle_store, store_lock, user_store, wallets,
                   wallet_store, tx_store, ret>>

create_rl_user_add_wallet(c) ==
    /\ calls[c].op = "user" /\ calls[c].pc = "add_wallet"
    /\ wallets' = add_new_wallet(RLWalletCreate(calls[c].wallet_info),
                                 calls[c].wallet_info.id)
    /\ store_lock' = 0
    /\ calls' = [calls EXCEPT ![c].pc = "done"]
    /\ UNCHANGED <<height, puzzle_store, used_up_to, user_store, wallet_store,
                   tx_store, ret>>

CreateNext ==
    \E c \in CallIds :
        \/ create_rl_admin_unused(c)
        \/ create_rl_admin_create_wallet(c)
        \/ create_rl_admin_add_paths(c)
        \/ create_rl_admin_set_used(c)
        \/ create_rl_admin_add_wallet(c)
        \/ create_rl_user_unused(c)
        \/ create_rl_user_create_wallet(c)
        \/ create_rl_user_get_last_wallet(c)
        \/ create_rl_user_add_paths(c)
        \/ create_rl_user_set_used(c)
        \/ create_rl_user_add_wallet(c)

(***************************************************************************)
(* Coin records and transaction records.                                   *)
(***************************************************************************)
RECURSIVE SumAmounts(_)
SumAmounts(coins) ==
    IF coins = {} THEN 0
    ELSE LET c == CHOOSE x \in coins : TRUE
         IN c.amount + SumAmounts(coins \ {c})

Unconfirmed == {t \in tx_store : ~t.confirmed}

\* wallet_store.get_coin_records_by_puzzle_hash(puzzle_hash), the unspent ones
UnspentByPuzzleHash(puzzle_hash) ==
    {r \in wallet_store : r.coin.puzzle_hash = puzzle_hash /\ ~r.spent}

\* get_rl_coin_record: the records the loop of lines 432-434 can return
get_rl_coin_record(w) ==
    IF UnspentByPuzzleHash(wallets[w].rl_info.rl_puzzle_hash) = {}
    THEN {NoneRecord}
    ELSE UnspentByPuzzleHash(wallets[w].rl_info.rl_puzzle_hash)

\* wallet_store.get_coin_record_by_coin_id(coin_id)
get_coin_record_by_coin_id(coin_id) ==
    IF \E r \in wallet_store : CoinName(r.coin) = coin_id
    THEN CHOOSE r \in wallet_store : CoinName(r.coin) = coin_id
    ELSE NoneRecord

(***************************************************************************)
(* rl_available_balance (rl_wallet.py:302-318).                            *)
(* int(x) truncates toward zero; ((height - confirmed) / interval) * limit *)
(* is a float product, equal to the exact quotient for every value within  *)
(* the bounds used here.                                                   *)
(***************************************************************************)
TruncDiv(a, b) == IF a >= 0 THEN a \div b ELSE -((-a) \div b)
Min(a, b) == IF a <= b THEN a ELSE b

\* an unlock that starts over in every interval
rl_available_balance_periodic(record, limit, interval, h) ==
    IF record = NoneRecord THEN 0
    ELSE LET unlocked == TruncDiv(((h - record.confirmed_block_index) % interval) * limit,
                                  interval)
             total_amount == record.coin.amount
         IN Min(unlocked, total_amount)

rl_available_balance(record, limit, interval, h) ==
    IF record = NoneRecord THEN 0
    ELSE LET unlocked == TruncDiv((h - record.confirmed_block_index) * limit, interval)
             total_amount == record.coin.amount
         IN Min(unlocked, total_amount)

(***************************************************************************)
(* The main wallet: select_coins, generate_signed_transaction.             *)
(***************************************************************************)
Spendable ==
    {r.coin : r \in {x \in wallet_store :
                       /\ ~x.spent
                       /\ x.coin.puzzle_hash = StdPuzzleHash(1)
                       /\ \A t \in Unconfirmed : x.coin \notin t.removals}}

\* the coin sets select_coins(amount) can return; empty when it returns None
select_coins(amount) ==
    {coins \in SUBSET Spendable :
        /\ SumAmounts(coins) >= amount
        /\ \A c \in coins : SumAmounts(coins \ {c}) < amount}

\* the additions of main_wallet.generate_signed_transaction(amount, puzzle_hash,
\* 0, origin_id, coins): the payment and the change, children of the origin
FundingAdditions(amount, puzzle_hash, origin_id, coins) ==
    {[parent_coin_info |-> origin_id, puzzle_hash |-> puzzle_hash, amount |-> amount]}
    \cup (IF SumAmounts(coins) > amount
          THEN {[parent_coin_info |-> origin_id, puzzle_hash |-> StdPuzzleHash(1),
                 amount |-> SumAmounts(coins) - amount]}
          ELSE {})

RLWallets == DOMAIN wallets

\* a wallet record that is not written again when the policy changes
new_wallet_info_stale(self, new_rl_info) == self.wallet_info

\* new_wallet_info: the record with the policy serialized again
\* (rl_wallet.py:222-225, 292-295)
new_wallet_info_of(self, new_rl_info) ==
    WalletInfo(self.wallet_info.id, self.wallet_info.name, to_json_dict(new_rl_info))

(***************************************************************************)
(* admin_create_coin (rl_wallet.py:166-231).                               *)
(***************************************************************************)
admin_create_coin_puzzle_hash(rl_info, interval, limit, user_pubkey_bytes, origin_id) ==
    rl_puzzle_for_pk(user_pubkey_bytes, limit, interval, origin_id, rl_info.admin_pubkey)

\* a funding that records the id of the origin's parent as the origin id
admin_create_coin_rl_info_parent_id(rl_info, interval, limit, user_pubkey_bytes, origin, rl_puzzle_hash) ==
    RLInfo("admin", rl_info.admin_pubkey, user_pubkey_bytes, limit, interval, origin,
           origin.parent_coin_info, rl_puzzle_hash, TRUE)

\* a funding that records the policy without the admin's own key
admin_create_coin_rl_info_keyless(rl_info, interval, limit, user_pubkey_bytes, origin, rl_puzzle_hash) ==
    RLInfo("admin", NoneBytes, user_pubkey_bytes, limit, interval, origin,
           CoinName(origin), rl_puzzle_hash, TRUE)

admin_create_coin_rl_info(rl_info, interval, limit, user_pubkey_bytes, origin, rl_puzzle_hash) ==
    RLInfo("admin", rl_info.admin_pubkey, user_pubkey_bytes, limit, interval, origin,
           CoinName(origin), rl_puzzle_hash, TRUE)

\* a registration under the main wallet's id
admin_create_coin_record_main(self, index, rl_puzzle_hash) ==
    DerivationRecord(index, rl_puzzle_hash, self.rl_info.admin_pubkey, 1)

\* the record of lines 195-201
admin_create_coin_record(self, index, rl_puzzle_hash) ==
    DerivationRecord(index, rl_puzzle_hash, self.rl_info.admin_pubkey,
                     self.wallet_info.id)

admin_create_coin(w, interval, limit, user_pubkey, amount, sb_ok) ==
    LET self == wallets[w]
        fail(result) ==
            /\ ret' = rl_set_admin_info(
                           Ret("admin_create_coin", w, result, amount, NoneInt, NoTx))
            /\ UNCHANGED <<puzzle_store, user_store, wallets, tx_store>>
    IN
    /\ ret = NoRet
    /\ Cardinality(puzzle_store) < MaxRecords
    /\ Cardinality(tx_store) < MaxTx
    /\ UNCHANGED <<height, used_up_to, store_lock, wallet_store, calls>>
    /\ IF select_coins(amount) = {}
       THEN fail("False")
       ELSE \E coins \in select_coins(amount) : \E origin \in coins :
            LET origin_id == CoinName(origin)
                user_pubkey_bytes == hexstr_to_bytes(user_pubkey)
                rl_puzzle_hash == admin_create_coin_puzzle_hash(
                    self.rl_info, interval, limit, user_pubkey_bytes, origin_id)
                index == index_for_pubkey(self.rl_info.admin_pubkey)
                record == admin_create_coin_record(self, index, rl_puzzle_hash)
                new_rl_info == admin_create_coin_rl_info(self.rl_info, interval,
                                   limit, user_pubkey_bytes, origin, rl_puzzle_hash)
                new_wallet_info == new_wallet_info_of(self, new_rl_info)
                tx == TransactionRecord("fund", 1, coins,
                          FundingAdditions(amount, rl_puzzle_hash, origin_id, coins),
                          rl_puzzle_hash, amount, NoneBytes, NoneInt, NoneBytes)
            IN IF self.rl_info.admin_pubkey = NoneBytes \/ index = NoneInt
               THEN fail("exception")
               ELSE /\ puzzle_store' = puzzle_store \cup {record}
                    /\ IF ~sb_ok
                       THEN /\ ret' = rl_set_admin_info(
                                          Ret("admin_create_coin", w, "False",
                                              amount, NoneInt, NoTx))
                            /\ UNCHANGED <<user_store, wallets, tx_store>>
                       ELSE /\ tx_store' = tx_store \cup {tx}
                            /\ user_store' = update_wallet(new_wallet_info)
                            /\ wallets' = add_new_wallet(
                                   [self EXCEPT !.wallet_info = new_wallet_info,
                                                !.rl_info = new_rl_info],
                                   self.wallet_info.id)
                            /\ ret' = rl_set_admin_info(
                                          Ret("admin_create_coin", w, "True",
                                              amount, NoneInt, tx))

(***************************************************************************)
(* set_user_info (rl_wallet.py:233-300).                                   *)
(***************************************************************************)
\* set_user_info passing limit and interval to the puzzle in the wrong order
set_user_info_puzzle_hash_swapped(rl_info, interval, limit, origin, admin_pubkey_bytes) ==
    rl_puzzle_for_pk(rl_info.user_pubkey, interval, limit, CoinName(origin),
                     admin_pubkey_bytes)

\* set_user_info whose puzzle depends on the policy already held, not on its
\* arguments alone
set_user_info_puzzle_hash_stateful(rl_info, interval, limit, origin, admin_pubkey_bytes) ==
    rl_puzzle_for_pk(rl_info.user_pubkey,
                     IF rl_info.initialized THEN limit + 1 ELSE limit, interval,
                     CoinName(origin), admin_pubkey_bytes)

set_user_info_puzzle_hash(rl_info, interval, limit, origin, admin_pubkey_bytes) ==
    rl_puzzle_for_pk(rl_info.user_pubkey, limit, interval, CoinName(origin),
                     admin_pubkey_bytes)

\* set_user_info marking the policy initialized without recording the origin coin
set_user_info_rl_info_no_origin(rl_info, interval, limit, origin, admin_pubkey_bytes, rl_puzzle_hash) ==
    RLInfo("user", admin_pubkey_bytes, rl_info.user_pubkey, limit, interval, NoneCoin,
           CoinName(origin), rl_puzzle_hash, TRUE)

\* set_user_info recording the policy without marking it initialized
set_user_info_rl_info_unmarked(rl_info, interval, limit, origin, admin_pubkey_bytes, rl_puzzle_hash) ==
    RLInfo("user", admin_pubkey_bytes, rl_info.user_pubkey, limit, interval, origin,
           CoinName(origin), rl_puzzle_hash, FALSE)

set_user_info_rl_info(rl_info, interval, limit, origin, admin_pubkey_bytes, rl_puzzle_hash) ==
    RLInfo("user", admin_pubkey_bytes, rl_info.user_pubkey, limit, interval, origin,
           CoinName(origin), rl_puzzle_hash, TRUE)

set_user_info(w, interval, limit, origin_parent_id, origin_puzzle_hash, origin_amount, admin_pubkey) ==
    LET self == wallets[w]
        admin_pubkey_bytes == hexstr_to_bytes(admin_pubkey)
        origin == [parent_coin_info |-> hexstr_to_bytes(origin_parent_id),
                   puzzle_hash |-> hexstr_to_bytes(origin_puzzle_hash),
                   amount |-> origin_amount]
        rl_puzzle_hash == set_user_info_puzzle_hash(self.rl_info, interval, limit,
                              origin, admin_pubkey_bytes)
        new_rl_info == set_user_info_rl_info(self.rl_info, interval, limit, origin,
                           admin_pubkey_bytes, rl_puzzle_hash)
        index == index_for_pubkey(self.rl_info.user_pubkey)
        record == DerivationRecord(index, rl_puzzle_hash, self.rl_info.user_pubkey,
                                   self.wallet_info.id)
        new_wallet_info == new_wallet_info_of(self, new_rl_info)
    IN
    /\ ret = NoRet
    /\ Cardinality(puzzle_store) < MaxRecords
    /\ UNCHANGED <<height, used_up_to, store_lock, wallet_store, tx_store, calls>>
    /\ IF \/ self.rl_info.user_pubkey = NoneBytes
          \/ puzzle_hash_exists(rl_puzzle_hash)
          \/ index = NoneInt
       THEN /\ ret' = [Ret("set_user_info", w, "exception", NoneInt, NoneInt, NoTx)
                        EXCEPT !.args = <<interval, limit, origin, admin_pubkey_bytes>>]
            /\ UNCHANGED <<puzzle_store, user_store, wallets>>
       ELSE /\ puzzle_store' = puzzle_store \cup {record}
            /\ user_store' = update_wallet(new_wallet_info)
            /\ wallets' = add_new_wallet([self EXCEPT !.wallet_info = new_wallet_info,
                                                      !.rl_info = new_rl_info],
                                         self.wallet_info.id)
            /\ ret' = [Ret("set_user_info", w, "True", NoneInt, NoneInt, NoTx)
                        EXCEPT !.args = <<interval, limit, origin, admin_pubkey_bytes>>]

PolicyNext ==
    \E w \in RLWallets :
        \/ \E interval \in Intervals, limit \in Limits, amount \in FundAmounts,
              user_pubkey \in {hexstr(k) : k \in UserKeys}, sb_ok \in BOOLEAN :
              admin_create_coin(w, interval, limit, user_pubkey, amount, sb_ok)
        \/ \E interval \in Intervals, limit \in Limits, origin \in OriginInputs,
              admin_pubkey \in {hexstr(k) : k \in AdminKeys} :
              set_user_info(w, interval, limit, hexstr(origin.parent_coin_info),
                            hexstr(origin.puzzle_hash), origin.amount, admin_pubkey)

\* self.rl_coin_record = await self.get_rl_coin_record() (rl_wallet.py:303, 481),
\* with the policy pointed at the coin read
rl_coin_record_refreshed_rebased(self, rl_coin_record) ==
    [self EXCEPT !.rl_coin_record = rl_coin_record,
                 !.rl_info.rl_origin = rl_coin_record.coin]

\* self.rl_coin_record = await self.get_rl_coin_record() (rl_wallet.py:303, 481)
rl_coin_record_refreshed(self, rl_coin_record) ==
    [self EXCEPT !.rl_coin_record = rl_coin_record]

\* a call of rl_available_balance on wallet w
rl_available_balance_call(w) ==
    /\ ret = NoRet
    /\ \E rl_coin_record \in get_rl_coin_record(w) :
         /\ wallets' = [wallets EXCEPT ![w] = rl_coin_record_refreshed(wallets[w], rl_coin_record)]
         /\ ret' = Ret("rl_available_balance", w, "value", NoneInt,
                       rl_available_balance(rl_coin_record, wallets[w].rl_info.limit,
                           wallets[w].rl_info.interval, height), NoTx)
    /\ UNCHANGED <<height, puzzle_store, used_up_to, store_lock, user_store,
                   wallet_store, tx_store, calls>>

(***************************************************************************)
(* Transfer: send_transaction (websocket_server.py:167-192) calling        *)
(* generate_signed_transaction_dict, rl_generate_signed_transaction        *)
(* (rl_wallet.py:480-508) and push_transaction (rl_wallet.py:703-705).     *)
(***************************************************************************)
\* get_rl_parent (rl_wallet.py:438-448): NoneCoin when the lookup finds nothing
\* a parent that is always taken to be the origin
get_rl_parent_origin(rl_info, rl_coin_record) == rl_info.rl_origin

get_rl_parent(rl_info, rl_coin_record) ==
    LET rl_parent_id == rl_coin_record.coin.parent_coin_info
    IN IF rl_parent_id = rl_info.rl_origin_id
       THEN rl_info.rl_origin
       ELSE get_coin_record_by_coin_id(rl_parent_id).coin

\* the coins created by a spend of coin under solution_for_rl: the payment
\* and the change, the change under the coin's own puzzle
TransferAdditions(coin, to_puzzlehash, amount) ==
    {[parent_coin_info |-> CoinName(coin), puzzle_hash |-> to_puzzlehash,
      amount |-> amount],
     [parent_coin_info |-> CoinName(coin), puzzle_hash |-> coin.puzzle_hash,
      amount |-> coin.amount - amount]}

CoinSolution(coin, puzzle, solution) ==
    [coin |-> coin, puzzle |-> puzzle, solution |-> solution]

\* solution_for_rl of rl_wallet_puzzles, as the list of its arguments
solution_for_rl(my_parent_id, my_puzzlehash, my_amount, out_puzzlehash, out_amount, my_parent_parent_id, parent_amount, interval, limit) ==
    <<"mode1", my_parent_id, my_puzzlehash, my_amount, out_puzzlehash, out_amount,
      my_parent_parent_id, parent_amount, interval, limit>>

\* a bundle that carries no signature
rl_sign_transaction_unsigned(coin_solutions, pubkey) == <<>>

\* the signatures that rl_sign_transaction and sign_clawback_transaction
\* aggregate (rl_wallet.py:511-519, 559-566): one for each spend, made with
\* the secret key of pubkey over the spend's solution
rl_sign_transaction(coin_solutions, pubkey) ==
    [i \in 1..Len(coin_solutions) |-> <<"sig", pubkey, coin_solutions[i].solution>>]

\* a gate that lets every amount through
rl_transfer_rejected_never(amount, rl_coin_record) == FALSE

\* the gate of rl_generate_signed_transaction (rl_wallet.py:482-483)
rl_transfer_rejected(amount, rl_coin_record) == amount > rl_coin_record.coin.amount

\* rl_generate_unsigned_transaction and rl_sign_transaction
\* (rl_wallet.py:450-478, 510-530), for a coin whose parent and key are known
rl_transfer_record(self, rl_coin_record, amount, to_puzzle_hash, index) ==
    LET coin == rl_coin_record.coin
        rl_parent == get_rl_parent(self.rl_info, rl_coin_record)
        puzzle == rl_puzzle_for_pk(self.rl_info.user_pubkey, self.rl_info.limit,
                      self.rl_info.interval, self.rl_info.rl_origin_id,
                      self.rl_info.admin_pubkey)
        solution == solution_for_rl(coin.parent_coin_info, coin.puzzle_hash,
                        coin.amount, to_puzzle_hash, amount,
                        rl_parent.parent_coin_info, rl_parent.amount,
                        self.rl_info.interval, self.rl_info.limit)
    IN [TransactionRecord("transfer", self.wallet_info.id, {coin},
            TransferAdditions(coin, to_puzzle_hash, amount), to_puzzle_hash, amount,
            puzzle, amount, master_sk_to_wallet_pk(index))
        EXCEPT !.coin_solutions = <<CoinSolution(coin, puzzle, solution)>>,
               !.aggsig = rl_sign_transaction(<<CoinSolution(coin, puzzle, solution)>>,
                              master_sk_to_wallet_pk(index))]

TIMEOUT == 30

MempoolInclusionStatus == {"SUCCESS", "PENDING", "FAILED"}

\* seconds after the push at which the first peer reports a status
StatusArrivals == {0, TIMEOUT - 1, TIMEOUT}

FailedToGenerate == "Failed to generate signed transaction"
TimedOut == "Timed out. Transaction may or may not have been sent."

\* the loop over get_transaction_status (websocket_server.py:194-225): the
\* status of the first peer if it arrives while the loop runs, the error with it
poll_transaction_status(arrival, status) ==
    IF arrival < TIMEOUT
    THEN ResponseData(status, IF status = "SUCCESS" THEN "" ELSE "err")
    ELSE ResponseData("FAILED", TimedOut)

\* a transfer that was not generated and is answered as sent
FailedResponse_sent(r) == [r EXCEPT !.data = ResponseData("SUCCESS", "")]

\* the response to a transfer that was not generated (websocket_server.py:170-184)
FailedResponse(r) == [r EXCEPT !.data = ResponseData("FAILED", FailedToGenerate)]

\* generate_signed_transaction_dict and rl_generate_signed_transaction
\* (rl_wallet.py:694-701, 480-508) on the record just read: what it raised,
\* None, or the transaction record
rl_generate_signed_transaction(w, rl_coin_record, amount, to_puzzle_hash) ==
    LET self == wallets[w]
        available == rl_available_balance(rl_coin_record, self.rl_info.limit,
                         self.rl_info.interval, height)
        index == index_for_puzzle_hash_and_wallet(
                     rl_coin_record.coin.puzzle_hash, self.wallet_info.id)
        tx == rl_transfer_record(self, rl_coin_record, amount, to_puzzle_hash, index)
    IN IF rl_coin_record = NoneRecord
       THEN Raised("send_transaction", w, amount, available, AttributeError)
       ELSE IF rl_transfer_rejected(amount, rl_coin_record)
       THEN Ret("send_transaction", w, "None", amount, available, NoTx)
       ELSE IF get_rl_parent(self.rl_info, rl_coin_record) = NoneCoin
       THEN Raised("send_transaction", w, amount, available, AttributeError)
       ELSE IF index = NoneInt
       THEN Raised("send_transaction", w, amount, available, IndexForPuzzlehashIsNone)
       ELSE Ret("send_transaction", w, "tx", amount, available, tx)

\* send_transaction from the request to the response
send_transaction(w, amount, to_puzzle_hash) ==
    LET self == wallets[w]
    IN
    /\ ret = NoRet
    /\ Cardinality(tx_store) < MaxTx
    /\ UNCHANGED <<height, puzzle_store, used_up_to, store_lock, user_store,
                   wallet_store, calls>>
    /\ \E rl_coin_record \in get_rl_coin_record(w) :
         /\ wallets' = [wallets EXCEPT ![w] = rl_coin_record_refreshed(self, rl_coin_record)]
         /\ LET r == rl_generate_signed_transaction(w, rl_coin_record, amount,
                                                    to_puzzle_hash)
            IN IF r.result # "tx"
               THEN /\ ret' = FailedResponse(r)
                    /\ UNCHANGED tx_store
               ELSE /\ tx_store' = tx_store \cup {r.tx}
                    /\ \E arrival \in StatusArrivals, status \in MempoolInclusionStatus :
                          ret' = [r EXCEPT !.data = poll_transaction_status(arrival, status)]

\* send_transaction up to the push (websocket_server.py:167-193): the
\* response when no transaction was generated, else the loop is entered
send_transaction_begin(w, amount, to_puzzle_hash) ==
    LET self == wallets[w]
    IN
    /\ ret = NoRet
    /\ Cardinality(tx_store) < MaxTx
    /\ UNCHANGED <<height, puzzle_store, used_up_to, store_lock, user_store,
                   wallet_store, calls>>
    /\ \E rl_coin_record \in get_rl_coin_record(w) :
         /\ wallets' = [wallets EXCEPT ![w] = rl_coin_record_refreshed(self, rl_coin_record)]
         /\ LET r == rl_generate_signed_transaction(w, rl_coin_record, amount,
                                                    to_puzzle_hash)
            IN IF r.result # "tx"
               THEN /\ ret' = FailedResponse(r)
                    /\ UNCHANGED tx_store
               ELSE /\ tx_store' = tx_store \cup {r.tx}
                    /\ ret' = [r EXCEPT !.result = "polling"]

\* a loop that goes on while no status has arrived
send_transaction_poll_unbounded ==
    /\ ret.op = "send_transaction"
    /\ ret.result = "polling"
    /\ UNCHANGED <<height, puzzle_store, used_up_to, store_lock, user_store, wallets,
                   wallet_store, tx_store, calls>>
    /\ \/ \E status \in MempoolInclusionStatus :
             ret' = [ret EXCEPT !.result = "tx",
                                !.data = poll_transaction_status(0, status)]
       \/ \E dt \in {1, 10} :
             ret' = [ret EXCEPT !.elapsed = IF ret.elapsed + dt < TIMEOUT
                                           THEN ret.elapsed + dt ELSE TIMEOUT]

\* one test of the loop of websocket_server.py:196-225: past TIMEOUT the
\* timed-out response; else get_transaction_status is read, and either the
\* first status is answered or the handler sleeps and time passes
send_transaction_poll ==
    /\ ret.op = "send_transaction"
    /\ ret.result = "polling"
    /\ UNCHANGED <<height, puzzle_store, used_up_to, store_lock, user_store, wallets,
                   wallet_store, tx_store, calls>>
    /\ IF ~(ret.elapsed < TIMEOUT)
       THEN ret' = [ret EXCEPT !.result = "tx",
                               !.data = ResponseData("FAILED", TimedOut)]
       ELSE \/ \E status \in MempoolInclusionStatus :
                  ret' = [ret EXCEPT !.result = "tx",
                                     !.data = poll_transaction_status(ret.elapsed, status)]
            \/ \E dt \in {1, 10} :
                  ret' = [ret EXCEPT !.elapsed = IF ret.elapsed + dt < TIMEOUT
                                                THEN ret.elapsed + dt ELSE TIMEOUT]

(***************************************************************************)
(* Clawback (rl_wallet.py:532-615).                                        *)
(***************************************************************************)
\* get_new_puzzlehash (rl_wallet.py:365-375)
get_new_puzzlehash(rl_info) ==
    rl_puzzle_for_pk(rl_info.user_pubkey, rl_info.limit, rl_info.interval,
                     rl_info.rl_origin_id, rl_info.admin_pubkey)

\* the checks of generate_unsigned_clawback_transaction (rl_wallet.py:535-545)
clawback_fields_missing(rl_info) ==
    \/ rl_info.limit = NoneInt
    \/ rl_info.interval = NoneInt
    \/ rl_info.user_pubkey = NoneBytes
    \/ rl_info.admin_pubkey = NoneBytes
    \/ rl_info.rl_origin = NoneCoin

\* a clawback held to the unlock schedule: it carries the unlocked amount only
clawback_solution_amount_unlocked(clawback_coin) ==
    rl_available_balance(get_coin_record_by_coin_id(CoinName(clawback_coin)),
                         clawback_coin.puzzle_hash[3], clawback_coin.puzzle_hash[4],
                         height)

\* make_clawback_solution(clawback_puzzle_hash, clawback_coin.amount): the
\* amount the solution carries (rl_wallet.py:553)
clawback_solution_amount(clawback_coin) == clawback_coin.amount

\* the spend built and signed by clawback_rl_coin (rl_wallet.py:579-590)
clawback_record(self, rl_coin, clawback_puzzle_hash, index) ==
    LET puzzle == rl_puzzle_for_pk(self.rl_info.user_pubkey, self.rl_info.limit,
                      self.rl_info.interval, CoinName(self.rl_info.rl_origin),
                      self.rl_info.admin_pubkey)
        solution_amount == clawback_solution_amount(rl_coin)
        \* make_clawback_solution(clawback_puzzle_hash, clawback_coin.amount)
        spends == <<CoinSolution(rl_coin, puzzle,
                        <<"clawback", clawback_puzzle_hash, solution_amount>>)>>
    IN [TransactionRecord("clawback", self.wallet_info.id, {rl_coin},
            {[parent_coin_info |-> CoinName(rl_coin),
              puzzle_hash |-> clawback_puzzle_hash, amount |-> solution_amount]},
            clawback_puzzle_hash, 0, puzzle, solution_amount,
            master_sk_to_wallet_pk(index))
        EXCEPT !.coin_solutions = spends,
               !.aggsig = rl_sign_transaction(spends, master_sk_to_wallet_pk(index))]

\* a clawback that goes on without a key when the lookup finds none
clawback_rl_coin_unsigned(w, rl_coin_record, clawback_puzzle_hash) ==
    LET self == wallets[w]
        index == index_for_pubkey(self.rl_info.admin_pubkey)
    IN IF rl_coin_record = NoneRecord
       THEN [result |-> "exception", tx |-> NoTx, error |-> RlCoinIsNone]
       ELSE IF clawback_fields_missing(self.rl_info)
       THEN [result |-> "exception", tx |-> NoTx, error |-> RlInfoElementIsNone]
       ELSE [result |-> "tx",
             tx |-> clawback_record(self, rl_coin_record.coin, clawback_puzzle_hash,
                                    index),
             error |-> ""]

\* clawback_rl_coin: "exception" with what was raised, or "tx" with the spend
clawback_rl_coin(w, rl_coin_record, clawback_puzzle_hash) ==
    LET self == wallets[w]
        index == index_for_pubkey(self.rl_info.admin_pubkey)
    IN IF rl_coin_record = NoneRecord
       THEN [result |-> "exception", tx |-> NoTx, error |-> RlCoinIsNone]
       ELSE IF clawback_fields_missing(self.rl_info)
       THEN [result |-> "exception", tx |-> NoTx, error |-> RlInfoElementIsNone]
       ELSE IF index = NoneInt
       THEN [result |-> "exception", tx |-> NoTx, error |-> IndexForPubkeyIsNone]
       ELSE [result |-> "tx",
             tx |-> clawback_record(self, rl_coin_record.coin, clawback_puzzle_hash,
                                    index),
             error |-> ""]

clawback_rl_coin_transaction(w) ==
    /\ ret = NoRet
    /\ UNCHANGED <<height, puzzle_store, used_up_to, store_lock, user_store, wallets,
                   wallet_store, tx_store, calls>>
    /\ \E rl_coin_record \in get_rl_coin_record(w) :
         LET rl_info == wallets[w].rl_info
             r == clawback_rl_coin(w, rl_coin_record, get_new_puzzlehash(rl_info))
             available == rl_available_balance(rl_coin_record, rl_info.limit,
                              rl_info.interval, height)
         IN \* get_new_puzzlehash of a policy with fields that are None: the
            \* puzzle is built from None values, which raises or goes through
            \/ /\ ~rl_info.initialized
               /\ ret' = Raised("clawback_rl_coin_transaction", w, NoneInt, available,
                                PuzzleError)
            \/ ret' = [Ret("clawback_rl_coin_transaction", w, r.result, NoneInt,
                           available, r.tx) EXCEPT !.error = r.error]

\* push_transaction (rl_wallet.py:703-705) of the record just returned
push_transaction ==
    /\ ret.op = "clawback_rl_coin_transaction"
    /\ ret.result = "tx"
    /\ ret.tx \notin tx_store
    /\ Cardinality(tx_store) < MaxTx
    /\ tx_store' = tx_store \cup {ret.tx}
    /\ UNCHANGED <<height, puzzle_store, used_up_to, store_lock, user_store, wallets,
                   wallet_store, calls, ret>>

(***************************************************************************)
(* Aggregation (rl_wallet.py:617-687).  The policy, the consolidating      *)
(* coin, the RL coin and its parent are arguments; the coin spent is the   *)
(* wallet's rl_coin_record, as the last balance or transfer call left it.  *)
(***************************************************************************)
rl_make_aggregation_puzzle(wallet_puzzle) == <<"aggregation", wallet_puzzle>>

\* rl_get_aggregation_puzzlehash (rl_wallet.py:689-691)
rl_get_aggregation_puzzlehash(wallet_puzzle) == rl_make_aggregation_puzzle(wallet_puzzle)

\* the coin to consolidate, paid to the aggregation puzzle of an RL puzzle
ConsolidatingCoins(wallet_puzzle) ==
    {[parent_coin_info |-> Genesis(5),
      puzzle_hash |-> rl_get_aggregation_puzzlehash(wallet_puzzle), amount |-> 1]}

\* a Coin object where rl_puzzle_for_pk expects the id of a coin
\* (rl_wallet.py:635-641 pass rl_info.rl_origin)
CoinObject(c) == <<"Coin", c.parent_coin_info, c.puzzle_hash, c.amount>>

\* the coins a caller passes for rl_coin and rl_parent: None, or the coin
\* of the wallet's rl_coin_record
AggregationCoins(w) == {NoneCoin, wallets[w].rl_coin_record.coin}

\* the check of lines 621-629, on the rl_info passed in
aggregation_fields_missing(rl_info) ==
    \/ rl_info.limit = NoneInt
    \/ rl_info.interval = NoneInt
    \/ rl_info.user_pubkey = NoneBytes
    \/ rl_info.admin_pubkey = NoneBytes

\* the puzzle of the lock, "(r (c (q 0x<id>) (q ())))" (lines 670-676)
LockPuzzle(consolidating_coin) == <<"lock", CoinName(consolidating_coin)>>

\* the lock coin of lines 678-683, whose parent is the RL coin itself
LockCoin(coin, consolidating_coin) ==
    [parent_coin_info |-> <<"coin", CoinName(coin)>>,
     puzzle_hash |-> LockPuzzle(consolidating_coin), amount |-> 0]

rl_make_solution_mode_2(my_puzzle_hash, consolidating_primary_input, consolidating_coin_puzzle_hash, outgoing_amount, my_primary_input, incoming_amount, parent_amount, my_parent_parent_id) ==
    <<"mode2", my_puzzle_hash, consolidating_primary_input,
      consolidating_coin_puzzle_hash, outgoing_amount, my_primary_input,
      incoming_amount, parent_amount, my_parent_parent_id>>

rl_make_aggregation_solution(myid, wallet_coin_primary_input, wallet_coin_amount) ==
    <<"aggregation_solution", myid, wallet_coin_primary_input, wallet_coin_amount>>

\* an aggregation that leaves the lock out
aggregation_coin_solutions_unlocked(self, rl_info, consolidating_coin, rl_parent, rl_coin) ==
    <<CoinSolution(self.rl_coin_record.coin,
          rl_puzzle_for_pk(rl_info.user_pubkey, rl_info.limit, rl_info.interval,
                           CoinObject(rl_info.rl_origin), rl_info.admin_pubkey),
          rl_make_solution_mode_2(rl_coin.puzzle_hash,
              consolidating_coin.parent_coin_info, consolidating_coin.puzzle_hash,
              consolidating_coin.amount, rl_coin.parent_coin_info, rl_coin.amount,
              rl_parent.amount, rl_parent.parent_coin_info)),
      CoinSolution(consolidating_coin,
          rl_make_aggregation_puzzle(self.rl_coin_record.coin.puzzle_hash),
          rl_make_aggregation_solution(CoinName(consolidating_coin),
              self.rl_coin_record.coin.parent_coin_info,
              self.rl_coin_record.coin.amount))>>

\* list_of_coinsolutions (lines 631-683): the RL coin, the consolidating coin
\* and the lock, in the order they are appended
aggregation_coin_solutions(self, rl_info, consolidating_coin, rl_parent, rl_coin) ==
    <<CoinSolution(self.rl_coin_record.coin,
          rl_puzzle_for_pk(rl_info.user_pubkey, rl_info.limit, rl_info.interval,
                           CoinObject(rl_info.rl_origin), rl_info.admin_pubkey),
          rl_make_solution_mode_2(rl_coin.puzzle_hash,
              consolidating_coin.parent_coin_info, consolidating_coin.puzzle_hash,
              consolidating_coin.amount, rl_coin.parent_coin_info, rl_coin.amount,
              rl_parent.amount, rl_parent.parent_coin_info)),
      CoinSolution(consolidating_coin,
          rl_make_aggregation_puzzle(self.rl_coin_record.coin.puzzle_hash),
          rl_make_aggregation_solution(CoinName(consolidating_coin),
              self.rl_coin_record.coin.parent_coin_info,
              self.rl_coin_record.coin.amount)),
      CoinSolution(LockCoin(self.rl_coin_record.coin, consolidating_coin),
          LockPuzzle(consolidating_coin), <<>>)>>

\* the spend bundle of lines 631-687, signed with the key of the RL coin's
\* puzzle hash
aggregation_bundle(coin_solutions, wallet_id, index) ==
    [TransactionRecord("aggregation", wallet_id,
         {coin_solutions[i].coin : i \in 1..Len(coin_solutions)},
         {}, NoneBytes, NoneInt, NoneBytes, NoneInt, master_sk_to_wallet_pk(index))
     EXCEPT !.coin_solutions = coin_solutions,
            \* aggsig = AugSchemeMPL.aggregate([signature]) (lines 654, 685)
            !.aggsig = <<<<"sig", master_sk_to_wallet_pk(index),
                          coin_solutions[1].solution>>>>]

rl_generate_signed_aggregation_transaction(w, rl_info, consolidating_coin, rl_parent, rl_coin) ==
    LET self == wallets[w]
        op == "rl_generate_signed_aggregation_transaction"
        index == index_for_puzzle_hash_and_wallet(
                     self.rl_coin_record.coin.puzzle_hash, self.wallet_info.id)
    IN
    /\ ret = NoRet
    /\ UNCHANGED <<height, puzzle_store, used_up_to, store_lock, user_store, wallets,
                   wallet_store, tx_store, calls>>
    /\ IF aggregation_fields_missing(rl_info)
       THEN ret' = Raised(op, w, NoneInt, NoneInt, RlInfoElementIsNone)
       ELSE IF self.rl_coin_record = NoneRecord
       THEN ret' = Raised(op, w, NoneInt, NoneInt, AttributeError)
       ELSE IF index = NoneInt
       THEN ret' = Raised(op, w, NoneInt, NoneInt, IndexForPuzzlehashIsNone)
       ELSE IF rl_coin = NoneCoin \/ rl_parent = NoneCoin
       THEN ret' = Raised(op, w, NoneInt, NoneInt, AttributeError)
       ELSE \* the puzzle is built from rl_info.rl_origin, a coin where the
            \* origin id belongs: that raises or goes through
            \/ ret' = Raised(op, w, NoneInt, NoneInt, PuzzleError)
            \/ ret' = Ret(op, w, "spend_bundle", NoneInt, NoneInt,
                          aggregation_bundle(
                              aggregation_coin_solutions(self, rl_info,
                                  consolidating_coin, rl_parent, rl_coin),
                              self.wallet_info.id, index))

SpendNext ==
    \E w \in RLWallets :
        \/ \E amount \in SendAmounts, to_puzzle_hash \in Recipients :
              send_transaction(w, amount, to_puzzle_hash)
        \/ clawback_rl_coin_transaction(w)
        \/ rl_available_balance_call(w)

\* the response to a request is sent before the next message is read
\* (websocket_server.py:621-626): nothing is held as returned any more
send_response ==
    /\ ret # NoRet
    /\ ret.error # ConnectionClosedError
    /\ ret.result # "polling"
    /\ ret' = NoRet
    /\ UNCHANGED <<height, puzzle_store, used_up_to, store_lock, user_store, wallets,
                   wallet_store, tx_store, calls>>

\* aggregation on wallet w with the policy of any wallet of the node
AggregationNext ==
    \E w \in RLWallets, v \in RLWallets :
        \E consolidating_coin \in ConsolidatingCoins(wallets[w].rl_coin_record.coin.puzzle_hash),
           rl_parent \in AggregationCoins(w), rl_coin \in AggregationCoins(w) :
            rl_generate_signed_aggregation_transaction(w, wallets[v].rl_info,
                consolidating_coin, rl_parent, rl_coin)

(***************************************************************************)
(* The ledger, as the wallet node sees it.  A block is no wallet operation: *)
(* after it ret holds no result.                                           *)
(***************************************************************************)
\* a block without any of this node's transactions
farm_block ==
    /\ ret = NoRet
    /\ height < MaxHeight
    /\ height' = height + 1
    /\ ret' = NoRet
    /\ UNCHANGED <<puzzle_store, used_up_to, store_lock, user_store, wallets,
                   wallet_store, tx_store, calls>>

\* what the RL puzzle demands of a spend of coin record r in a block at height h
SpendValid(tx, h) ==
    \/ tx.kind = "fund"
    \/ \A r \in {x \in wallet_store : x.coin \in tx.removals} :
         /\ tx.puzzle = r.coin.puzzle_hash
         /\ \/ /\ tx.kind = "clawback"
               /\ tx.signer = tx.puzzle[6]
            \/ /\ tx.kind = "transfer"
               /\ tx.signer = tx.puzzle[2]
               /\ tx.amount * tx.puzzle[4] <= (h - r.confirmed_block_index) * tx.puzzle[3]

\* a block that includes the pending transaction tx: its removals are spent,
\* and the additions paying a puzzle hash this node tracks become coin records
confirm_transaction(tx) ==
    /\ ret = NoRet
    /\ tx \in Unconfirmed
    /\ height < MaxHeight
    /\ \A c \in tx.removals : \E r \in wallet_store : r.coin = c /\ ~r.spent
    /\ SpendValid(tx, height + 1)
    /\ height' = height + 1
    /\ wallet_store' =
          {IF r.coin \in tx.removals THEN [r EXCEPT !.spent = TRUE] ELSE r :
              r \in wallet_store}
          \cup {WalletCoinRecord(c, height + 1, FALSE) :
                  c \in {a \in tx.additions :
                            \/ a.puzzle_hash = StdPuzzleHash(1)
                            \/ puzzle_hash_exists(a.puzzle_hash)}}
    /\ tx_store' = (tx_store \ {tx}) \cup {[tx EXCEPT !.confirmed = TRUE]}
    /\ ret' = NoRet
    /\ UNCHANGED <<puzzle_store, used_up_to, store_lock, user_store, wallets, calls>>

\* a block in which an admin on another node funds the policy of user wallet w:
\* the RL coin is a child of the origin the user recorded
remote_funding(w, amount) ==
    LET rl_info == wallets[w].rl_info
    IN
    /\ ret = NoRet
    /\ height < MaxHeight
    /\ rl_info.initialized
    /\ rl_info.type = "user"
    /\ rl_info.rl_origin \notin MainCoins
    /\ \A r \in wallet_store : r.coin.puzzle_hash # rl_info.rl_puzzle_hash
    /\ height' = height + 1
    /\ wallet_store' = wallet_store \cup
          {WalletCoinRecord([parent_coin_info |-> rl_info.rl_origin_id,
                             puzzle_hash |-> rl_info.rl_puzzle_hash,
                             amount |-> amount], height + 1, FALSE)}
    /\ ret' = NoRet
    /\ UNCHANGED <<puzzle_store, used_up_to, store_lock, user_store, wallets,
                   tx_store, calls>>

\* the coin of a payment made by another node
PaymentCoin(puzzle_hash) ==
    [parent_coin_info |-> Genesis(7), puzzle_hash |-> puzzle_hash, amount |-> 1]

\* a block with a payment to the address wallet w gives out, the puzzle hash
\* of get_new_puzzlehash (websocket_server.py:151-165)
payment_received(w) ==
    LET rl_info == wallets[w].rl_info
        coin == PaymentCoin(get_new_puzzlehash(rl_info))
    IN
    /\ ret = NoRet
    /\ height < MaxHeight
    /\ rl_info.initialized
    /\ \A r \in wallet_store : r.coin # coin
    /\ height' = height + 1
    /\ wallet_store' = wallet_store \cup {WalletCoinRecord(coin, height + 1, FALSE)}
    /\ ret' = NoRet
    /\ UNCHANGED <<puzzle_store, used_up_to, store_lock, user_store, wallets,
                   tx_store, calls>>

LedgerNext ==
    \/ farm_block
    \/ \E tx \in tx_store : confirm_transaction(tx)
    \/ \E w \in RLWallets, amount \in FundAmounts : remote_funding(w, amount)

\* a request is handled, or a block arrives, when no response is outstanding
\* (ret = NoRet in each of them)
Next ==
    \/ PolicyNext
    \/ SpendNext
    \/ LedgerNext
    \/ push_transaction
    \/ send_response

Spec == Init /\ [][Next]_vars

\* rl_generate_signed_aggregation_transaction has no caller in the wallet
\* server: it is called on the wallets that policies, balance reads and
\* blocks produce
AggregationSpecNext ==
    \/ PolicyNext
    \/ \E w \in RLWallets : rl_available_balance_call(w)
    \/ AggregationNext
    \/ LedgerNext
    \/ send_response

SpecAggregation == Init /\ [][AggregationSpecNext]_vars

\* every operation that builds a spend of the RL coin, aggregation included,
\* with the policies and blocks of Spec
SpendOpsNext ==
    \/ PolicyNext
    \/ \E w \in RLWallets, amount \in SendAmounts, to_puzzle_hash \in Recipients :
          send_transaction(w, amount, to_puzzle_hash)
    \/ \E w \in RLWallets : clawback_rl_coin_transaction(w)
    \/ AggregationNext
    \/ LedgerNext
    \/ push_transaction
    \/ send_response

SpecSpendOps == Init /\ [][SpendOpsNext]_vars

\* the same, with payments from other nodes to the addresses given out
PaymentNext ==
    \/ Next
    \/ \E w \in RLWallets : payment_received(w)

SpecPayment == Init /\ [][PaymentNext]_vars

\* transfers only, on the coins that fundings, blocks and payments from
\* other nodes leave in the wallet store
TransferNext ==
    \/ PolicyNext
    \/ \E w \in RLWallets, amount \in SendAmounts, to_puzzle_hash \in Recipients :
          send_transaction(w, amount, to_puzzle_hash)
    \/ LedgerNext
    \/ \E w \in RLWallets : payment_received(w)
    \/ send_response

SpecTransfer == Init /\ [][TransferNext]_vars

\* rl_set_user_info calls set_user_info with four of its six arguments
rl_set_user_info(w) ==
    /\ ret = NoRet
    /\ ret' = safe_handle_error("rl_set_user_info",
                  Raised("rl_set_user_info", w, NoneInt, NoneInt, TypeError))
    /\ UNCHANGED <<height, puzzle_store, used_up_to, store_lock, user_store, wallets,
                   wallet_store, tx_store, calls>>

\* a message that is not JSON, or has no command
safe_handle_unreadable(e) ==
    /\ ret = NoRet
    /\ ret' = safe_handle_error("None", Raised("UnknownCommand", 0, NoneInt, NoneInt, e))
    /\ UNCHANGED <<height, puzzle_store, used_up_to, store_lock, user_store, wallets,
                   wallet_store, tx_store, calls>>

\* the handler of command raises ConnectionClosedError: safe_handle closes the
\* websocket and sends nothing, and no later message is read
safe_handle_closed(command) ==
    /\ ret = NoRet
    /\ ret' = Raised(command, 0, NoneInt, NoneInt, ConnectionClosedError)
    /\ UNCHANGED <<height, puzzle_store, used_up_to, store_lock, user_store, wallets,
                   wallet_store, tx_store, calls>>

DispatchNext ==
    \/ PolicyNext
    \/ LedgerNext
    \/ \E w \in RLWallets : rl_set_user_info(w)
    \/ \E e \in {"JSONDecodeError", "'command'"} : safe_handle_unreadable(e)
    \/ \E command \in {"rl_set_admin_info", "rl_set_user_info"} :
          safe_handle_closed(command)
    \/ send_response

SpecDispatch == Init /\ [][DispatchNext]_vars

SpecCreate == InitCreate /\ [][CreateNext]_vars

(***************************************************************************)
(* rl_available_balance over a range of heights, intervals, limits and     *)
(* coin amounts: user wallet 3 holds a policy funded from another node,    *)
(* its RL coin confirmed at a height of BalanceConfirmed.                  *)
(***************************************************************************)
BalanceHeights == {99, 100, 105, 110, 119, 120, 121}
BalanceConfirmed == {100}
BalanceIntervals == {3, 10}
BalanceLimits == {0, 5}
BalanceAmounts == {0, 4, 9, 50}

RemoteOrigin == [parent_coin_info |-> Genesis(3), puzzle_hash |-> StdPuzzleHash(2),
                 amount |-> 4]

BalanceInfo(interval, limit) ==
    set_user_info_rl_info(RLWalletCreate(UserInfo0).rl_info, interval, limit,
        RemoteOrigin, ForeignKey,
        set_user_info_puzzle_hash(RLWalletCreate(UserInfo0).rl_info, interval, limit,
                                  RemoteOrigin, ForeignKey))

InitBalance ==
    \E h \in BalanceHeights, c \in BalanceConfirmed, interval \in BalanceIntervals,
       limit \in BalanceLimits, amount \in BalanceAmounts :
       LET rl_info == BalanceInfo(interval, limit)
           info == WalletInfo(3, "RL User", to_json_dict(rl_info))
       IN
       /\ height = h
       /\ puzzle_store =
              {DerivationRecord(1, <<"token", 1>>, master_sk_to_wallet_pk(1), 2),
               DerivationRecord(2, <<"token", 2>>, master_sk_to_wallet_pk(2), 3),
               DerivationRecord(2, rl_info.rl_puzzle_hash, master_sk_to_wallet_pk(2), 3)}
       /\ used_up_to = 2
       /\ store_lock = 0
       /\ user_store = <<MainWalletInfo, AdminInfo0, info>>
       /\ wallets = [i \in {2, 3} |->
                        IF i = 2 THEN RLWalletCreate(AdminInfo0)
                        ELSE [wallet_info |-> info, rl_info |-> rl_info,
                              rl_coin_record |-> NoneRecord]]
       /\ wallet_store = {WalletCoinRecord(x, 0, FALSE) : x \in MainCoins} \cup
              {WalletCoinRecord([parent_coin_info |-> rl_info.rl_origin_id,
                                 puzzle_hash |-> rl_info.rl_puzzle_hash,
                                 amount |-> amount], c, FALSE)}
       /\ tx_store = {}
       /\ calls = [x \in CallIds |-> IdleCall]
       /\ ret = NoRet

BalanceNext ==
    \/ \E w \in RLWallets : rl_available_balance_call(w)
    \/ send_response

SpecBalance == InitBalance /\ [][BalanceNext]_vars

(***************************************************************************)
(* The persisted form of RLInfo: wallet 3 holds any policy, saved as       *)
(* admin_create_coin and set_user_info save it (rl_wallet.py:222-229,      *)
(* 292-299), and the node loads the wallet again from its record.          *)
(***************************************************************************)
CodecTypes == {"admin", "user"}
CodecKeys == {NoneBytes, master_sk_to_wallet_pk(1)}
CodecInts == {NoneInt, 0, 3}
CodecCoins == {NoneCoin, RemoteOrigin}
CodecHashes == {NoneBytes, CoinName(RemoteOrigin)}

CodecInfos ==
    {RLInfo(type, admin_pubkey, user_pubkey, limit, interval, rl_origin, rl_origin_id,
            rl_puzzle_hash, initialized) :
        type \in CodecTypes, admin_pubkey \in CodecKeys, user_pubkey \in CodecKeys,
        limit \in CodecInts, interval \in CodecInts, rl_origin \in CodecCoins,
        rl_origin_id \in CodecHashes, rl_puzzle_hash \in CodecHashes,
        initialized \in BOOLEAN}

InitCodec ==
    \E rl_info \in CodecInfos :
       LET info == WalletInfo(3, "RL User", to_json_dict(rl_info))
       IN
       /\ height = 0
       /\ puzzle_store =
              {DerivationRecord(1, <<"token", 1>>, master_sk_to_wallet_pk(1), 2),
               DerivationRecord(2, <<"token", 2>>, master_sk_to_wallet_pk(2), 3)}
       /\ used_up_to = 2
       /\ store_lock = 0
       /\ user_store = <<MainWalletInfo, AdminInfo0, info>>
       /\ wallets = [i \in {2, 3} |->
                        IF i = 2 THEN RLWalletCreate(AdminInfo0)
                        ELSE [wallet_info |-> info, rl_info |-> rl_info,
                              rl_coin_record |-> NoneRecord]]
       /\ wallet_store = {WalletCoinRecord(x, 0, FALSE) : x \in MainCoins}
       /\ tx_store = {}
       /\ calls = [x \in CallIds |-> IdleCall]
       /\ ret = NoRet

\* RLWallet.create (rl_wallet.py:153-164) of wallet w from its stored record
create(w) ==
    /\ ret = NoRet
    /\ wallets' = [wallets EXCEPT ![w] = RLWalletCreate(user_store[w])]
    /\ ret' = Ret("create", w, "True", NoneInt, NoneInt, NoTx)
    /\ UNCHANGED <<height, puzzle_store, used_up_to, store_lock, user_store,
                   wallet_store, tx_store, calls>>

CodecNext ==
    \/ \E w \in RLWallets : create(w)
    \/ send_response

SpecCodec == InitCodec /\ [][CodecNext]_vars

(***************************************************************************)
(* Signing against any content of the derivation store: admin wallet 2 has *)
(* funded a policy and its RL coin is confirmed; the store, which every    *)
(* wallet of the node writes, holds any subset of the records.             *)
(***************************************************************************)
InitLookup ==
    \E interval \in Intervals, limit \in Limits, amount \in FundAmounts,
       origin \in MainCoins, h \in 1..MaxHeight :
       LET self == RLWalletCreate(AdminInfo0)
           rl_puzzle_hash == admin_create_coin_puzzle_hash(self.rl_info, interval,
                                 limit, ForeignKey, CoinName(origin))
           rl_info == admin_create_coin_rl_info(self.rl_info, interval, limit,
                          ForeignKey, origin, rl_puzzle_hash)
           info == new_wallet_info_of(self, rl_info)
           tx == [TransactionRecord("fund", 1, {origin},
                      FundingAdditions(amount, rl_puzzle_hash, CoinName(origin), {origin}),
                      rl_puzzle_hash, amount, NoneBytes, NoneInt, NoneBytes)
                  EXCEPT !.confirmed = TRUE]
       IN
       /\ height = h
       /\ puzzle_store \in SUBSET
              {DerivationRecord(1, <<"token", 1>>, master_sk_to_wallet_pk(1), 2),
               DerivationRecord(2, <<"token", 2>>, master_sk_to_wallet_pk(2), 3),
               DerivationRecord(1, rl_puzzle_hash, master_sk_to_wallet_pk(1), 2)}
       /\ used_up_to = 2
       /\ store_lock = 0
       /\ user_store = <<MainWalletInfo, info, UserInfo0>>
       /\ wallets = [i \in {2, 3} |->
                        IF i = 2 THEN [self EXCEPT !.wallet_info = info,
                                                   !.rl_info = rl_info]
                        ELSE RLWalletCreate(UserInfo0)]
       /\ wallet_store = {WalletCoinRecord(origin, 0, TRUE)} \cup
              {WalletCoinRecord(a, 1, FALSE) : a \in tx.additions}
       /\ tx_store = {tx}
       /\ calls = [x \in CallIds |-> IdleCall]
       /\ ret = NoRet

LookupNext ==
    \/ SpendNext
    \/ push_transaction
    \/ send_response

SpecLookup == InitLookup /\ [][LookupNext]_vars

\* send_transaction as the steps of its handler, on a funded admin wallet;
\* the event loop resumes the handler after every sleep
PollNext ==
    \/ \E w \in RLWallets, amount \in SendAmounts, to_puzzle_hash \in Recipients :
          send_transaction_begin(w, amount, to_puzzle_hash)
    \/ send_transaction_poll
    \/ send_response

SpecPoll == InitLookup /\ [][PollNext]_vars /\ WF_vars(send_transaction_poll)

(***************************************************************************)
(* Properties.                                                             *)
(***************************************************************************)
\* the unspent coin records under the RL puzzle hash of wallet w
RLCoinRecords(w) == UnspentByPuzzleHash(wallets[w].rl_info.rl_puzzle_hash)

\* C1: a transfer returns a transaction record only when the amount is within
\* the available balance at the current height; available + 1 is rejected.
C1_TransferGatedByAvailable ==
    ret.op = "send_transaction" =>
        /\ ret.result = "tx" => ret.amount <= ret.available
        /\ ret.amount = ret.available + 1 => ret.result # "tx"

\* C2: for height >= confirmed height, rl_available_balance returns
\* min(floor((height - confirmed) / interval) * limit, coin amount).
C2_WholeIntervalsUnlock ==
    \A w \in RLWallets : \A r \in RLCoinRecords(w) :
        (/\ ret.op = "rl_available_balance"
         /\ ret.wallet = w
         /\ height >= r.confirmed_block_index)
        => ret.available =
              Min(((height - r.confirmed_block_index) \div wallets[w].rl_info.interval)
                      * wallets[w].rl_info.limit,
                  r.coin.amount)

\* the clawback built for wallet w spends its unspent RL coin and carries the
\* coin's full amount
ClawbackBuilt(w) ==
    /\ ret.result = "tx"
    /\ \E r \in RLCoinRecords(w) :
          /\ ret.tx.removals = {r.coin}
          /\ ret.tx.solution_amount = r.coin.amount

\* C3 as stated: in every initialized wallet with an unspent RL coin, clawback
\* builds a spend of the coin carrying its full amount, at every height.
C3_ClawbackAnyInitializedWallet ==
    \A w \in RLWallets :
        (/\ ret.op = "clawback_rl_coin_transaction"
         /\ ret.wallet = w
         /\ wallets[w].rl_info.initialized
         /\ RLCoinRecords(w) # {})
        => ClawbackBuilt(w)

\* C3 amended: in an initialized wallet with an unspent RL coin and a derivation
\* index registered for rl_info.admin_pubkey, clawback builds a spend of the coin
\* carrying its full amount, at every height, whatever the available balance.
C3_ClawbackIgnoresSchedule ==
    \A w \in RLWallets :
        (/\ ret.op = "clawback_rl_coin_transaction"
         /\ ret.wallet = w
         /\ wallets[w].rl_info.initialized
         /\ RLCoinRecords(w) # {}
         /\ index_for_pubkey(wallets[w].rl_info.admin_pubkey) # NoneInt)
        => ClawbackBuilt(w)

\* a clawback of the full coin was built at a height where nothing is unlocked
C3_Witness ==
    /\ ret.op = "clawback_rl_coin_transaction"
    /\ ret.result = "tx"
    /\ ret.available = 0
    /\ ret.tx.solution_amount > 0
    /\ ClawbackBuilt(ret.wallet)

\* C4: a clawback sends the full amount of the RL coin to a recipient that is
\* not the rate-limited puzzle, so that once it is accepted none of what it
\* created is locked by the RL puzzle hash.
C4_ClawbackDrainsCoin ==
    \A t \in tx_store : t.kind = "clawback" =>
        /\ \A a \in t.additions : a.amount = SumAmounts(t.removals)
        /\ t.to_puzzle_hash # t.puzzle
        /\ t.confirmed => \A r \in wallet_store :
               r.coin \in t.additions => r.coin.puzzle_hash # t.puzzle

\* C5: no two pending transfers spend the same RL coin.
C5_NoTwoPendingSpendsOfOneCoin ==
    \A t1, t2 \in Unconfirmed :
        (t1 # t2 /\ t1.kind = "transfer" /\ t2.kind = "transfer")
        => t1.removals \cap t2.removals = {}

\* C6: no two creation calls are assigned the same unused derivation index.
C6_DistinctDerivationIndices ==
    \A c1, c2 \in CallIds :
        (c1 # c2 /\ calls[c1].pc # "idle" /\ calls[c2].pc # "idle")
        => calls[c1].unused # calls[c2].unused

PolicyPresent(info) ==
    /\ info.limit # NoneInt
    /\ info.interval # NoneInt
    /\ info.rl_origin # NoneCoin
    /\ info.rl_origin_id # NoneBytes
    /\ info.rl_puzzle_hash # NoneBytes

\* C7: rl_info.initialized is true exactly when limit, interval, rl_origin,
\* rl_origin_id and rl_puzzle_hash are all present.
C7_InitializedIffPolicyPresent ==
    \A w \in RLWallets :
        wallets[w].rl_info.initialized <=> PolicyPresent(wallets[w].rl_info)

\* one wallet holds a policy while the other has none yet
C7_Witness ==
    \E w1, w2 \in RLWallets :
        /\ wallets[w1].rl_info.initialized
        /\ PolicyPresent(wallets[w1].rl_info)
        /\ ~wallets[w2].rl_info.initialized
        /\ ret.result = "True"

CounterpartyKey(info) ==
    IF info.type = "admin" THEN info.user_pubkey ELSE info.admin_pubkey

\* C8: once set, the counterparty's public key of a wallet never changes.
C8_CounterpartyKeyCapturedOnce ==
    [][\A w \in RLWallets :
          CounterpartyKey(wallets[w].rl_info) # NoneBytes =>
              (IF wallets[w].rl_info.type = "admin"
               THEN wallets'[w].rl_info.user_pubkey
               ELSE wallets'[w].rl_info.admin_pubkey)
              = CounterpartyKey(wallets[w].rl_info)]_vars

SamePolicyInputs(a, u) ==
    /\ a.type = "admin" /\ u.type = "user"
    /\ a.initialized /\ u.initialized
    /\ a.interval = u.interval
    /\ a.limit = u.limit
    /\ a.rl_origin = u.rl_origin
    /\ a.user_pubkey = u.user_pubkey
    /\ a.admin_pubkey = u.admin_pubkey

\* C9: an admin wallet and a user wallet that ran admin_create_coin and
\* set_user_info with the same interval, limit, origin coin and keys hold the
\* same rl_origin_id and the same rl_puzzle_hash.
C9_AdminAndUserDeriveSamePolicy ==
    \A w1, w2 \in RLWallets :
        SamePolicyInputs(wallets[w1].rl_info, wallets[w2].rl_info) =>
            /\ wallets[w1].rl_info.rl_origin_id = wallets[w2].rl_info.rl_origin_id
            /\ wallets[w1].rl_info.rl_puzzle_hash = wallets[w2].rl_info.rl_puzzle_hash

\* the admin has funded the policy the user recorded
C9_Witness ==
    \E w1, w2 \in RLWallets :
        /\ SamePolicyInputs(wallets[w1].rl_info, wallets[w2].rl_info)
        /\ ret.op = "admin_create_coin"
        /\ ret.result = "True"
        /\ ret.wallet = w1

\* C10: set_user_info on an initialized user wallet with arguments other than
\* the recorded policy fails and leaves rl_info, the wallet record and the
\* derivation store unchanged.
C10_SecondPolicyRejected ==
    [][\A w \in RLWallets :
          (/\ ret'.op = "set_user_info"
           /\ ret'.wallet = w
           /\ height' = height
           /\ wallets[w].rl_info.initialized
           /\ wallets[w].rl_info.type = "user"
           /\ ret'.args # <<wallets[w].rl_info.interval, wallets[w].rl_info.limit,
                            wallets[w].rl_info.rl_origin,
                            wallets[w].rl_info.admin_pubkey>>)
          => /\ ret'.result = "exception"
             /\ wallets'[w] = wallets[w]
             /\ user_store' = user_store
             /\ puzzle_store' = puzzle_store]_vars

\* the arguments of the set_user_info call that produced the policy info
RecordedPolicy(info) == <<info.interval, info.limit, info.rl_origin, info.admin_pubkey>>

\* C11: set_user_info called again with the arguments of the recorded policy
\* leaves every field of rl_info as it was.
C11_SetUserInfoIdempotent ==
    [][\A w \in RLWallets :
          (/\ ret'.op = "set_user_info"
           /\ ret'.wallet = w
           /\ height' = height
           /\ wallets[w].rl_info.initialized
           /\ wallets[w].rl_info.type = "user"
           /\ ret'.args = RecordedPolicy(wallets[w].rl_info))
          => wallets'[w].rl_info = wallets[w].rl_info]_vars

\* set_user_info has just been repeated with the arguments of the policy held
C11_Witness ==
    \E w \in RLWallets :
        /\ ret.op = "set_user_info"
        /\ ret.wallet = w
        /\ wallets[w].rl_info.initialized
        /\ wallets[w].rl_info.type = "user"
        /\ ret.args = RecordedPolicy(wallets[w].rl_info)
        /\ ret.result = "exception"

\* C12: no admin_create_coin or set_user_info call registers a derivation
\* record over a puzzle hash that is already registered: such a call is
\* rejected and the store keeps the earlier registration.
C12_RegisteredHashNotOverwritten ==
    [][/\ \A r \in puzzle_store' \ puzzle_store : ~puzzle_hash_exists(r.puzzle_hash)
       /\ (/\ ret'.op = "admin_create_coin"
           /\ ret'.result = "True"
           /\ puzzle_hash_exists(ret'.tx.to_puzzle_hash))
          => puzzle_store' = puzzle_store /\ wallets' = wallets]_vars

\* C13: for an unspent RL coin the value rl_available_balance returns at a
\* height at or above the coin's confirmed height is at most the coin's amount
\* and at most what it returns at any greater height.
C13_AvailableMonotoneAndBounded ==
    \A w \in RLWallets : \A r \in RLCoinRecords(w) :
        (/\ ret.op = "rl_available_balance"
         /\ ret.wallet = w
         /\ height >= r.confirmed_block_index)
        => /\ ret.available <= r.coin.amount
           /\ \A h2 \in BalanceHeights :
                 h2 >= height =>
                    ret.available <= rl_available_balance(r, wallets[w].rl_info.limit,
                                         wallets[w].rl_info.interval, h2)

\* a balance that is positive, below the coin's amount and greater later
C13_Witness ==
    \E w \in RLWallets : \E r \in RLCoinRecords(w) :
        /\ ret.op = "rl_available_balance"
        /\ ret.wallet = w
        /\ height > r.confirmed_block_index
        /\ ret.available > 0
        /\ ret.available < r.coin.amount
        /\ \E h2 \in BalanceHeights :
              /\ h2 > height
              /\ ret.available < rl_available_balance(r, wallets[w].rl_info.limit,
                                     wallets[w].rl_info.interval, h2)

\* C14: rl_available_balance never returns a negative number, and at a height
\* below the RL coin's confirmed height it fails instead of returning a value.
C14_AvailableNeverNegative ==
    \A w \in RLWallets : \A r \in RLCoinRecords(w) :
        (ret.op = "rl_available_balance" /\ ret.wallet = w)
        => /\ ret.result = "value" => ret.available >= 0
           /\ height < r.confirmed_block_index => ret.result = "exception"

\* C15: a transfer requested while the wallet has no unspent RL coin returns
\* no transaction record, builds no spend, and is reported as the absence of
\* the coin.
C15_TransferWithoutCoinFails ==
    \A w \in RLWallets :
        (/\ ret.op = "send_transaction"
         /\ ret.wallet = w
         /\ RLCoinRecords(w) = {})
        => /\ ret.result # "tx"
           /\ ret.tx = NoTx
           /\ ret.error = RlCoinIsNone

\* C16: on a wallet whose policy is not initialized, clawback fails as a
\* policy with missing elements and returns no transaction record.
C16_ClawbackNeedsInitializedPolicy ==
    \A w \in RLWallets :
        (/\ ret.op = "clawback_rl_coin_transaction"
         /\ ret.wallet = w
         /\ ~wallets[w].rl_info.initialized)
        => /\ ret.result = "exception"
           /\ ret.tx = NoTx
           /\ ret.error = RlInfoElementIsNone

\* C17: clawback on a wallet of type user fails and builds no spend, and every
\* clawback spend is signed with the key derived for the policy's admin pubkey.
C17_ClawbackAdminOnly ==
    /\ \A w \in RLWallets :
          (/\ ret.op = "clawback_rl_coin_transaction"
           /\ ret.wallet = w
           /\ wallets[w].rl_info.type = "user")
          => ret.result = "exception" /\ ret.tx = NoTx
    /\ \A t \in tx_store \cup {ret.tx} :
          t.kind = "clawback" =>
             /\ t.signer = wallets[t.wallet_id].rl_info.admin_pubkey
             /\ wallets[t.wallet_id].rl_info.type = "admin"

\* the operations that build a spend of the RL coin
SpendOps == {"send_transaction", "clawback_rl_coin_transaction",
             "rl_generate_signed_aggregation_transaction"}

\* C18: on a wallet that is not initialized, transfer, clawback and
\* aggregation return no spend bundle or transaction record; admin_create_coin
\* succeeds only on an admin wallet and set_user_info only on a user wallet,
\* and set_user_info moves no funds.
C18_UninitializedOnlyFundsOrRecords ==
    [][\A w \in RLWallets :
          (/\ ret = NoRet
           /\ ret'.wallet = w
           /\ ~wallets[w].rl_info.initialized)
          => /\ ret'.op \in SpendOps =>
                   /\ ret'.result = "exception"
                   /\ ret'.tx = NoTx
                   /\ tx_store' = tx_store
             /\ (ret'.op = "admin_create_coin" /\ ret'.result = "True") =>
                   wallets[w].rl_info.type = "admin"
             /\ (ret'.op = "set_user_info" /\ ret'.result = "True") =>
                   /\ wallets[w].rl_info.type = "user"
                   /\ tx_store' = tx_store
                   /\ wallet_store' = wallet_store]_vars

\* aggregation with a complete policy was asked of a wallet that is not
\* initialized, and failed
C18_Witness ==
    \E w \in RLWallets :
        /\ ret.op = "rl_generate_signed_aggregation_transaction"
        /\ ret.wallet = w
        /\ ~wallets[w].rl_info.initialized
        /\ ret.error = AttributeError
        /\ \E v \in RLWallets : RLCoinRecords(v) # {}

\* C19: an admin wallet is initialized only once the ledger has confirmed its
\* funding transaction, and the origin it records is a coin that transaction
\* created.
C19_InitializedAfterFundingConfirmed ==
    \A w \in RLWallets :
        (wallets[w].rl_info.type = "admin" /\ wallets[w].rl_info.initialized)
        => \E t \in tx_store :
              /\ t.kind = "fund"
              /\ t.to_puzzle_hash = wallets[w].rl_info.rl_puzzle_hash
              /\ t.confirmed
              /\ wallets[w].rl_info.rl_origin \in t.additions

\* C20: no path of send_transaction, the one that times out waiting for a
\* mempool status included, changes the wallet's rl_info or its persisted
\* record, and none changes a coin record: the RL coin stays unspent until
\* a block marks it spent.
C20_SendTransactionLeavesPolicy ==
    [][\A w \in RLWallets :
          (ret = NoRet /\ ret'.op = "send_transaction" /\ ret'.wallet = w)
          => /\ wallets'[w].rl_info = wallets[w].rl_info
             /\ wallets'[w].wallet_info = wallets[w].wallet_info
             /\ user_store' = user_store
             /\ wallet_store' = wallet_store
             /\ get_rl_coin_record(w)' = get_rl_coin_record(w)]_vars

\* a transfer was pushed, no status arrived before TIMEOUT, and the coin it
\* spends is still an unspent coin record
C20_Witness ==
    /\ ret.op = "send_transaction"
    /\ ret.result = "tx"
    /\ ret.data = ResponseData("FAILED", TimedOut)
    /\ ret.tx \in tx_store
    /\ wallets[ret.wallet].rl_info.initialized
    /\ \E r \in wallet_store : r.coin \in ret.tx.removals /\ ~r.spent

\* C21: a submission that saw no mempool status before TIMEOUT is reported
\* with a status other than the FAILED of a transfer the mempool rejected.
C21_TimeoutNotReportedAsFailure ==
    (ret.op = "send_transaction" /\ ret.result = "tx" /\ ret.data.reason = TimedOut)
    => ret.data.status # "FAILED"

\* C22: rl_generate_signed_aggregation_transaction raises and returns
\* nothing, or returns one bundle of exactly three coin spends: the RL coin
\* under a mode-2 solution, the consolidating coin under the aggregation
\* puzzle of the RL coin's puzzle hash, and a lock coin of amount 0 whose
\* puzzle holds the consolidating coin's id.
C22_AggregationAllOrNothing ==
    ret.op = "rl_generate_signed_aggregation_transaction"
    => LET cs == ret.tx.coin_solutions
           rl_coin == wallets[ret.wallet].rl_coin_record.coin
       IN \/ ret.result = "exception" /\ ret.tx = NoTx
          \/ /\ ret.result = "spend_bundle"
             /\ Len(cs) = 3
             /\ cs[1].coin = rl_coin
             /\ cs[1].solution[1] = "mode2"
             /\ cs[2].coin \in ConsolidatingCoins(rl_coin.puzzle_hash)
             /\ cs[2].puzzle = rl_make_aggregation_puzzle(rl_coin.puzzle_hash)
             /\ cs[3].coin.amount = 0
             /\ cs[3].puzzle = LockPuzzle(cs[2].coin)
             /\ cs[3].coin.puzzle_hash = cs[3].puzzle

C22_Witness ==
    /\ ret.op = "rl_generate_signed_aggregation_transaction"
    /\ ret.result = "spend_bundle"
    /\ Len(ret.tx.coin_solutions) = 3

\* the ledger's rule for an aggregation bundle: each puzzle revealed hashes
\* to the puzzle hash of the coin it spends, and the mode-2 spend then
\* creates the successor of the RL coin, holding the two amounts under the
\* RL coin's puzzle hash; a bundle that breaks the rule creates nothing
AggregationSuccessor(coin_solutions) ==
    IF \A i \in 1..Len(coin_solutions) :
          coin_solutions[i].puzzle = coin_solutions[i].coin.puzzle_hash
    THEN [parent_coin_info |-> CoinName(coin_solutions[1].coin),
          puzzle_hash |-> coin_solutions[1].coin.puzzle_hash,
          amount |-> coin_solutions[1].coin.amount + coin_solutions[2].coin.amount]
    ELSE NoneCoin

\* C23: an aggregation of a consolidating coin of amount a into an RL coin
\* of amount r yields a successor RL coin of amount r + a under the same
\* puzzle hash.
C23_AggregationAddsAmounts ==
    (ret.op = "rl_generate_signed_aggregation_transaction" /\ ret.result = "spend_bundle")
    => LET cs == ret.tx.coin_solutions
           successor == AggregationSuccessor(cs)
       IN /\ successor.puzzle_hash = cs[1].coin.puzzle_hash
          /\ successor.amount = cs[1].coin.amount + cs[2].coin.amount

C25_RecordIsImageOfPolicy ==
    \A w \in RLWallets :
        /\ from_json_dict(wallets[w].wallet_info.data) = wallets[w].rl_info
        /\ from_json_dict(user_store[wallets[w].wallet_info.id].data) = wallets[w].rl_info

\* a policy was just recorded or funded, and an operation has just failed on
\* a wallet that holds one
C25_Witness ==
    /\ ret.op \in {"admin_create_coin", "set_user_info"}
    /\ ret.result \in {"False", "exception"}
    /\ wallets[ret.wallet].rl_info.initialized

\* C26: no wallet operation sets an RLInfo field that holds a value back to
\* absent, and initialized never goes from true to false.
C26_RLInfoAppendOnly ==
    [][\A w \in RLWallets :
          LET old == wallets[w].rl_info
              new == wallets'[w].rl_info
          IN /\ old.admin_pubkey # NoneBytes => new.admin_pubkey # NoneBytes
             /\ old.user_pubkey # NoneBytes => new.user_pubkey # NoneBytes
             /\ old.limit # NoneInt => new.limit # NoneInt
             /\ old.interval # NoneInt => new.interval # NoneInt
             /\ old.rl_origin # NoneCoin => new.rl_origin # NoneCoin
             /\ old.rl_origin_id # NoneBytes => new.rl_origin_id # NoneBytes
             /\ old.rl_puzzle_hash # NoneBytes => new.rl_puzzle_hash # NoneBytes
             /\ old.initialized => new.initialized]_vars

\* a policy that was already funded has been funded once more
C26_Witness ==
    /\ ret.op = "admin_create_coin"
    /\ ret.result = "True"
    /\ Cardinality({t \in tx_store : t.kind = "fund" /\ t.wallet_id = 1}) = 2

\* C27: whenever a wallet's rl_origin and rl_origin_id are both present,
\* rl_origin_id is the coin id of rl_origin.
C27_OriginIdIsNameOfOrigin ==
    \A w \in RLWallets :
        LET rl_info == wallets[w].rl_info
        IN (rl_info.rl_origin # NoneCoin /\ rl_info.rl_origin_id # NoneBytes)
           => rl_info.rl_origin_id = CoinName(rl_info.rl_origin)

\* both sides hold an origin: the admin funded, the user recorded
C27_Witness ==
    \A w \in RLWallets :
        /\ wallets[w].rl_info.rl_origin # NoneCoin
        /\ wallets[w].rl_info.rl_origin_id # NoneBytes

\* C28: when no derivation index is registered for the coin's puzzle hash
\* under the wallet (transfer) or for the admin pubkey (clawback), the call
\* ends with an error and returns no spend, partial or complete.
C28_LookupMissAbortsSpend ==
    LET self == wallets[ret.wallet]
    IN /\ ( /\ ret.op = "send_transaction"
            /\ self.rl_coin_record # NoneRecord
            /\ index_for_puzzle_hash_and_wallet(self.rl_coin_record.coin.puzzle_hash,
                                                self.wallet_info.id) = NoneInt )
          => /\ ret.result \in {"exception", "None"}
             /\ ret.tx = NoTx
             /\ ret.data.status = "FAILED"
             /\ ret.result = "exception" => ret.error \in {AttributeError,
                                                          IndexForPuzzlehashIsNone}
       /\ ( /\ ret.op = "clawback_rl_coin_transaction"
            /\ index_for_pubkey(self.rl_info.admin_pubkey) = NoneInt )
          => /\ ret.result = "exception"
             /\ ret.tx = NoTx

\* a transfer reached the lookup of the key of its coin's puzzle hash and
\* found no index
C28_Witness ==
    /\ ret.op = "send_transaction"
    /\ ret.error = IndexForPuzzlehashIsNone

\* C29: at most one unspent coin record has the puzzle hash of a wallet's
\* rl_info, so get_rl_coin and get_rl_coin_record name one coin.
C29_OneUnspentRLCoin ==
    \A w \in RLWallets :
        wallets[w].rl_info.initialized => Cardinality(RLCoinRecords(w)) <= 1

\* C30 as stated: whenever the handling of a websocket command raised, the
\* caller was sent success false with the error text under the command's name
\* (UnknownCommand for an unreadable message).
C30_EveryRaiseIsReported ==
    (/\ ret.result = "exception"
     /\ ret.op \in {"admin_create_coin", "rl_set_admin_info", "rl_set_user_info",
                    "UnknownCommand"})
        => ret.data = format_response(
                          IF ret.op = "admin_create_coin" THEN "rl_set_admin_info"
                                                          ELSE ret.op,
                          [success |-> FALSE, error |-> ret.error])

\* C30 amended: whenever the handling of a websocket command raised anything
\* but ConnectionClosedError, the caller was sent success false with the
\* error text under the command's name (UnknownCommand for an unreadable
\* message), and the server goes on to read the next message; on
\* ConnectionClosedError nothing was sent and no further message is read.
C30_RaiseIsReportedUnlessClosed ==
    /\ [](/\ ret.result = "exception"
          /\ ret.op \in {"admin_create_coin", "rl_set_user_info", "UnknownCommand"}
          /\ ret.error # ConnectionClosedError
          => ret.data = format_response(
                            IF ret.op = "admin_create_coin" THEN "rl_set_admin_info"
                                                            ELSE ret.op,
                            [success |-> FALSE, error |-> ret.error]))
    /\ [](ret.error = ConnectionClosedError => ret.data = NoData)
    /\ [][/\ (/\ ret.result = "exception"
              /\ ret.op \in {"admin_create_coin", "rl_set_user_info",
                             "UnknownCommand"}
              /\ ret.error # ConnectionClosedError) => ret' = NoRet
          /\ ret.error = ConnectionClosedError => ret' = ret]_vars

\* admin_create_coin raised on a wallet that holds coins to fund with, and
\* rl_set_admin_info's caller was answered
C30_Witness ==
    /\ ret.op = "admin_create_coin"
    /\ ret.result = "exception"
    /\ ret.data = format_response("rl_set_admin_info", [success |-> FALSE, error |-> ""])

\* C31: whenever a funding transaction is pending or confirmed, the puzzle
\* hash it pays is registered in the derivation store for an RL wallet of
\* this node (the wallet that funded, when the call has just returned), and
\* the transaction pays exactly its amount to that puzzle hash in one coin
\* whose parent is a coin the funding spends.
C31_FundingPaysRegisteredPuzzleHash ==
    \A t \in tx_store :
        t.kind = "fund"
        => /\ \E r \in puzzle_store :
                /\ r.puzzle_hash = t.to_puzzle_hash
                /\ r.wallet_id \in RLWallets
                /\ (ret.op = "admin_create_coin" /\ ret.tx = t)
                       => r.wallet_id = ret.wallet
           /\ \E c \in t.additions :
                /\ c.puzzle_hash = t.to_puzzle_hash
                /\ c.amount = t.amount
                /\ \E o \in t.removals : c.parent_coin_info = CoinName(o)
                /\ \A d \in t.additions : d.puzzle_hash = t.to_puzzle_hash => d = c

\* admin_create_coin returned True and its funding transaction is pending
C31_Witness ==
    /\ ret.op = "admin_create_coin"
    /\ ret.result = "True"
    /\ ret.tx \in tx_store
    /\ ~ret.tx.confirmed
    /\ ret.tx.to_puzzle_hash = wallets[ret.wallet].rl_info.rl_puzzle_hash

\* C32: a transfer that returns a transaction record builds exactly one
\* spend, of the unspent RL coin it has just read, whose solution names as
\* the coin's parent the origin coin when the coin's parent id is
\* rl_origin_id, and otherwise the coin of the record stored under the parent
\* id; when the parent id is neither, the transfer returns no record and
\* queues nothing.
C32_TransferSpendsRLCoinWithItsParent ==
    [][(ret = NoRet /\ ret'.op = "send_transaction")
       => LET self == wallets'[ret'.wallet]
              coin == self.rl_coin_record.coin
              parent_id == coin.parent_coin_info
              stored == {r \in wallet_store : CoinName(r.coin) = parent_id}
          IN /\ ret'.result = "tx"
                => /\ Len(ret'.tx.coin_solutions) = 1
                   /\ ret'.tx.coin_solutions[1].coin = coin
                   /\ ret'.tx.removals = {coin}
                   /\ self.rl_coin_record \in wallet_store
                   /\ ~self.rl_coin_record.spent
                   /\ coin.puzzle_hash = self.rl_info.rl_puzzle_hash
                   /\ \E rl_parent \in IF parent_id = self.rl_info.rl_origin_id
                                       THEN {self.rl_info.rl_origin}
                                       ELSE {r.coin : r \in stored} :
                         /\ ret'.tx.coin_solutions[1].solution[7] =
                                rl_parent.parent_coin_info
                         /\ ret'.tx.coin_solutions[1].solution[8] = rl_parent.amount
             /\ (/\ self.rl_coin_record # NoneRecord
                 /\ parent_id # self.rl_info.rl_origin_id
                 /\ stored = {})
                => /\ ret'.result # "tx"
                   /\ ret'.tx = NoTx
                   /\ tx_store' = tx_store]_vars

\* a transfer of a coin of the second generation was built: its parent is
\* the spent RL coin found by its id
C32_Witness ==
    /\ ret.op = "send_transaction"
    /\ ret.result = "tx"
    /\ wallets[ret.wallet].rl_coin_record.coin.parent_coin_info #
           wallets[ret.wallet].rl_info.rl_origin_id
    /\ \E r \in wallet_store :
          /\ CoinName(r.coin) = wallets[ret.wallet].rl_coin_record.coin.parent_coin_info
          /\ r.spent

\* C33 as stated: every bundle returned by a transfer, a clawback or an
\* aggregation carries one signature for each of its coin spends, made over
\* that spend's solution.
C33_OneSignaturePerSpend ==
    (ret.result \in {"tx", "spend_bundle"} /\ ret.op \in SpendOps)
    => /\ Len(ret.tx.aggsig) = Len(ret.tx.coin_solutions)
       /\ \A i \in 1..Len(ret.tx.coin_solutions) :
             /\ ret.tx.aggsig[i][1] = "sig"
             /\ ret.tx.aggsig[i][3] = ret.tx.coin_solutions[i].solution

\* C33 amended: a bundle returned by a transfer or a clawback carries one
\* signature for each of its coin spends, made over that spend's solution
\* with a key of the derivation store; a bundle returned by an aggregation carries one
\* signature, over the solution of the RL coin's spend, for its three spends.
C33_SignaturesOfSpendBundles ==
    /\ (ret.result = "tx" /\ ret.op \in {"send_transaction", "clawback_rl_coin_transaction"})
       => /\ Len(ret.tx.coin_solutions) = 1
          /\ Len(ret.tx.aggsig) = Len(ret.tx.coin_solutions)
          /\ \A i \in 1..Len(ret.tx.coin_solutions) :
                ret.tx.aggsig[i] = <<"sig", ret.tx.signer, ret.tx.coin_solutions[i].solution>>
          /\ \E r \in puzzle_store : r.pubkey = ret.tx.signer
    /\ (ret.result = "spend_bundle" /\ ret.op = "rl_generate_signed_aggregation_transaction")
       => /\ Len(ret.tx.coin_solutions) = 3
          /\ ret.tx.aggsig = <<<<"sig", ret.tx.signer, ret.tx.coin_solutions[1].solution>>>>

\* a clawback returned a signed bundle on a wallet that also holds a policy
\* with an unspent coin
C33_Witness ==
    /\ ret.op = "clawback_rl_coin_transaction"
    /\ ret.result = "tx"
    /\ Len(ret.tx.aggsig) = 1
    /\ ret.tx.removals = {wallets[ret.wallet].rl_coin_record.coin}

\* C34: in every bundle a transfer, a clawback or an aggregation returns,
\* the puzzle revealed for the RL coin is the one of the wallet's five policy
\* parameters: its hash is rl_info.rl_puzzle_hash, the puzzle hash of the
\* coin spent.
C34_RevealedPuzzleLocksTheCoin ==
    (ret.result \in {"tx", "spend_bundle"} /\ ret.op \in SpendOps)
    => LET rl_info == wallets[ret.wallet].rl_info
           spend == ret.tx.coin_solutions[1]
       IN /\ spend.puzzle = rl_puzzle_for_pk(rl_info.user_pubkey, rl_info.limit,
                                rl_info.interval, rl_info.rl_origin_id,
                                rl_info.admin_pubkey)
          /\ spend.puzzle = rl_info.rl_puzzle_hash
          /\ spend.puzzle = spend.coin.puzzle_hash

\* C35: a call of admin_create_coin that returns False leaves rl_info, the
\* persisted wallet record, the derivation store and the queue of pending
\* transactions as they were before the call.
C35_FailedFundingLeavesNoTrace ==
    [][(ret = NoRet /\ ret'.op = "admin_create_coin" /\ ret'.result = "False")
       => /\ wallets' = wallets
          /\ user_store' = user_store
          /\ puzzle_store' = puzzle_store
          /\ tx_store' = tx_store]_vars

\* C36: a transfer of more than the amount of the unspent RL coin it has
\* read returns None: it has no transaction record, no coin spend and no
\* signature, and the caller is answered FAILED.
C36_TransferAboveCoinAmountReturnsNone ==
    (/\ ret.op = "send_transaction"
     /\ wallets[ret.wallet].rl_coin_record # NoneRecord
     /\ ret.amount > wallets[ret.wallet].rl_coin_record.coin.amount)
    => /\ ret.result = "None"
       /\ ret.tx = NoTx
       /\ ret.tx.coin_solutions = <<>>
       /\ ret.tx.aggsig = <<>>
       /\ ret.data = ResponseData("FAILED", FailedToGenerate)

\* a transfer of 3 was asked of an initialized wallet whose unspent coin
\* holds less
C36_Witness ==
    /\ ret.op = "send_transaction"
    /\ ret.result = "None"
    /\ wallets[ret.wallet].rl_info.initialized
    /\ wallets[ret.wallet].rl_coin_record \in wallet_store
    /\ ~wallets[ret.wallet].rl_coin_record.spent
    /\ ret.amount > wallets[ret.wallet].rl_coin_record.coin.amount

\* C37: a send_transaction whose generation raised or returned None answers
\* FAILED and leaves the queue of pending transactions as it was; the queue
\* changes only when a transaction record was generated, by that record.
C37_NoPushWithoutTransaction ==
    [][(ret = NoRet /\ ret'.op = "send_transaction")
       => /\ ret'.result \in {"exception", "None"}
             => /\ ret'.data.status = "FAILED"
                /\ ret'.tx = NoTx
                /\ tx_store' = tx_store
          /\ tx_store' # tx_store
             => /\ ret'.result = "tx"
                /\ tx_store' = tx_store \cup {ret'.tx}]_vars

\* generation raised on a wallet that holds a pending transaction: the
\* caller was answered FAILED
C37_Witness ==
    /\ ret.op = "send_transaction"
    /\ ret.result = "exception"
    /\ ret.data.status = "FAILED"
    /\ tx_store # {}

C39_RoleAndOwnKeyAreFixed ==
    /\ wallets[2].rl_info.type = "admin"
    /\ wallets[2].rl_info.admin_pubkey = master_sk_to_wallet_pk(1)
    /\ wallets[3].rl_info.type = "user"
    /\ wallets[3].rl_info.user_pubkey = master_sk_to_wallet_pk(2)

\* C40: whatever the interleaving of wallet creations, the wallet that a
\* finished create_rl_user call returns is built from the wallet record this
\* call created (type user, carrying the pubkey this call derived), and the
\* derivation record the call registered points at that wallet's id.
C40_UserCreationReturnsItsOwnWallet ==
    \A c \in CallIds :
        (calls[c].op = "user" /\ calls[c].pc = "done") =>
            LET self == RLWalletCreate(calls[c].wallet_info)
            IN /\ self.rl_info.type = "user"
               /\ self.rl_info.user_pubkey = calls[c].pubkey
               /\ \E r \in puzzle_store :
                      /\ r.puzzle_hash = <<"token", c>>
                      /\ r.pubkey = calls[c].pubkey
                      /\ r.wallet_id = self.wallet_info.id
====
